---------------------------- MODULE Spec2Model ----------------------------
(***************************************************************************)
(* A model of the semantic knowledge-graph engine of hailight.space:       *)
(* topic classification with running-mean centroids, cross-query matching, *)
(* source dedup merges, harvest ingestion and the research scheduler.      *)
(*                                                                         *)
(* The database tables are variables; every awaited call of a handler is   *)
(* one step, so that concurrent handlers interleave between awaits exactly *)
(* as the edge functions do.  A database or service call whose result the  *)
(* code tests may fail; calls whose result the code ignores are not failed.*)
(* Each subsystem has its own specification over the shared tables.        *)
(***************************************************************************)
EXTENDS Integers, Sequences, FiniteSets, TLC

VARIABLES
    topics,      \* table topics: sequence of rows, id = index
    queries,     \* table queries: sequence of rows, id = index
    cl,          \* classifyIntoTopic calls in progress, one per caller slot
    folded,      \* history: per topic, the embeddings written into its centroid
    sources,     \* table sources: set of rows
    connections, \* table connections: set of rows
    fk,          \* what the schema does for connections -> sources references
    dd,          \* the dedup-sources handler and its mergePair call
    pl,          \* a search request, as far as sources and connections go
    runs,        \* handler invocations so far: [sweeps, searches]
    deleted,     \* history: ids of deleted source rows
    snap,        \* history: the tables as they were when mergePair was called
    directions,  \* table research_directions: sequence of rows, id = index
    sc,          \* the auto-research handler and its processDirection call
    cycles,      \* scheduler cycles started so far
    outcome,     \* history: per direction of this cycle, how its processing ended
    rq,          \* a search request around its three parallel tasks
    requests,    \* search requests started so far
    ing,         \* embedAndInsertBatch calls in progress, one per job
    batches,     \* harvest batches started so far
    xm,          \* a findRelatedSources call and its lookups
    lookups,     \* findRelatedSources calls so far
    stores,      \* queries whose sources were stored for the matcher
    gi,          \* a gatherInsightData call and its RPCs
    lg,          \* a loadGraphData call and its RPCs
    bs,          \* a computeBridgeScore call
    reads,       \* reader invocations so far
    rt,          \* a withRetry call
    rtCalls,     \* withRetry calls so far
    ra,          \* a reconstructAbstract call
    an           \* the analytics module of the web client and the events table

topicVars == <<topics, queries, cl, folded>>

mergeVars == <<sources, connections, fk, dd, pl, runs, deleted, snap>>

schedVars == <<directions, sc, cycles, outcome>>

searchVars == <<rq, requests>>

ingestVars == <<ing, batches>>

crossVars == <<xm, lookups, stores>>

bridgeVars == <<gi, lg, bs, reads>>

retryVars == <<rt, rtCalls>>

vars == <<topicVars, mergeVars, schedVars, searchVars, ingestVars, crossVars, bridgeVars, retryVars, ra, an>>

notTopicVars == <<mergeVars, schedVars, searchVars, ingestVars, crossVars, bridgeVars, retryVars, ra, an>>

notMergeVars == <<topicVars, schedVars, searchVars, ingestVars, crossVars, bridgeVars, retryVars, ra, an>>

notSchedVars == <<topicVars, mergeVars, searchVars, ingestVars, crossVars, bridgeVars, retryVars, ra, an>>

notSearchVars == <<mergeVars, schedVars, ingestVars, crossVars, bridgeVars, retryVars, ra, an>>

\* all but sources and the variables of ingestion
notIngestVars ==
    <<topicVars, schedVars, searchVars, crossVars, bridgeVars, retryVars, ra, an,
      connections, fk, dd, pl, runs, deleted, snap>>

\* all but sources and the variables of the matcher
notCrossVars ==
    <<topicVars, schedVars, searchVars, ingestVars, bridgeVars, retryVars, ra, an,
      connections, fk, dd, pl, runs, deleted, snap>>

\* all but sources and the variables of the readers
notBridgeVars ==
    <<topicVars, schedVars, searchVars, ingestVars, crossVars, retryVars, ra, an,
      connections, fk, dd, pl, runs, deleted, snap>>

notRetryVars ==
    <<topicVars, mergeVars, schedVars, searchVars, ingestVars, crossVars, bridgeVars, ra, an>>

notAbstractVars ==
    <<topicVars, mergeVars, schedVars, searchVars, ingestVars, crossVars, bridgeVars,
      retryVars, an>>

notAnalyticsVars ==
    <<topicVars, mergeVars, schedVars, searchVars, ingestVars, crossVars, bridgeVars,
      retryVars, ra>>

---------------------------------------------------------------------------
(* Bounds *)

MaxCalls == 2      \* concurrent callers of classifyIntoTopic
MaxQueries == 3    \* queries created in one run

Slots == 1..MaxCalls

Users == {"u1", "u2"}

\* Query embeddings, as integer vectors (cosine similarity is scale-free).
\* <<1,0>> and <<1,1>> are at 0.7071, just under the 0.71 threshold.
Embeddings == {<<1, 0>>, <<3, 1>>, <<1, 1>>}

NoTopic == 0

---------------------------------------------------------------------------
(* Arithmetic on vectors and exact fractions *)

Dims(v) == 1..Len(v)

Abs(x) == IF x < 0 THEN -x ELSE x

RECURSIVE Gcd(_, _)
Gcd(a, b) == IF b = 0 THEN Abs(a) ELSE Gcd(b, a % b)

RECURSIVE GcdVec(_, _)
GcdVec(v, i) == IF i > Len(v) THEN 0 ELSE Gcd(v[i], GcdVec(v, i + 1))

RECURSIVE DotFrom(_, _, _)
DotFrom(a, b, i) == IF i > Len(a) THEN 0 ELSE a[i] * b[i] + DotFrom(a, b, i + 1)

Dot(a, b) == DotFrom(a, b, 1)

\* A centroid is the vector num / den, kept in lowest terms.
Reduce(num, den) ==
    LET g == Gcd(den, GcdVec(num, 1))
    IN  [num |-> [i \in Dims(num) |-> num[i] \div g], den |-> den \div g]

\* topics.ts:47-49  newCentroid[i] = (v * n + queryEmbedding[i]) / (n + 1)
RunningMeanDropsWeight(oldNum, oldDen, n, e) ==
    Reduce([i \in Dims(oldNum) |-> oldNum[i] + e[i] * oldDen], oldDen * (n + 1))

RunningMean(oldNum, oldDen, n, e) ==
    Reduce([i \in Dims(oldNum) |-> oldNum[i] * n + e[i] * oldDen], oldDen * (n + 1))

\* topics.ts:30  p_threshold: 0.71, as the fraction 71/100
ThresholdNum == 71
ThresholdDen == 100

\* cosine(a, b) >= num/den, without square roots
CosineAtLeast(a, b, num, den) ==
    /\ Dot(a, b) > 0
    /\ Dot(a, b) * Dot(a, b) * den * den >= num * num * Dot(a, a) * Dot(b, b)

\* cosine(a, e) >= cosine(b, e), for a and b both at positive similarity to e
CosineGeq(a, b, e) ==
    Dot(a, e) * Dot(a, e) * Dot(b, b) >= Dot(b, e) * Dot(b, e) * Dot(a, a)

---------------------------------------------------------------------------
(* TopicClassifier: classifyIntoTopic, topics.ts:16-83 *)

TopicIds == 1..Len(topics)

\* RPC match_user_topic: the user's topics at similarity >= threshold, best
\* first, at most one row.  Several rows tie only at equal similarity.
MatchUserTopic(userId, emb) ==
    LET cand == {t \in TopicIds :
                    /\ topics[t].user_id = userId
                    /\ CosineAtLeast(topics[t].num, emb, ThresholdNum, ThresholdDen)}
    IN  {t \in cand : \A u \in cand : CosineGeq(topics[t].num, topics[u].num, emb)}

\* topics.ts:72  the stored label: the text itself plays no part, how it
\* was produced stays in the call's label
LabelText == "text"

IdleCall == [pc |-> "idle", queryId |-> 0, userId |-> "u1", emb |-> <<1, 0>>,
             topic |-> NoTopic, exNum |-> <<0, 0>>, exDen |-> 1, exN |-> 0,
             label |-> "none", isNew |-> FALSE,
             lookup |-> "none", hadMatch |-> FALSE, before |-> <<>>]

InitTopicVars ==
    /\ topics = <<>>
    /\ queries = <<>>
    /\ cl = [r \in Slots |-> IdleCall]
    /\ folded = <<>>

\* The caller: the query row is created (part_009:72-79) and the call made
\* (part_009:118).  serial: no other call is in progress; before then
\* records the topics table as the call found it.
CallClassify(r, serial) ==
    /\ UNCHANGED notTopicVars
    /\ cl[r].pc = "idle"
    /\ Len(queries) < MaxQueries
    /\ serial => \A s \in Slots : cl[s].pc = "idle"
    /\ \E u \in Users, e \in Embeddings :
          /\ queries' = Append(queries, [user_id |-> u, topic_id |-> NoTopic, emb |-> e])
          /\ cl' = [cl EXCEPT ![r] = [IdleCall EXCEPT !.pc = "match",
                                         !.queryId = Len(queries) + 1,
                                         !.userId = u, !.emb = e,
                                         !.before = IF serial THEN topics ELSE <<>>]]
    /\ UNCHANGED <<topics, folded>>

\* Some topic of the user is at similarity >= 0.71 to the embedding
WithinThreshold(userId, emb) ==
    \E t \in TopicIds :
        /\ topics[t].user_id = userId
        /\ CosineAtLeast(topics[t].num, emb, ThresholdNum, ThresholdDen)

\* topics.ts:27-34 with the test of line 33 as match?.length > 1
ClassifyMatchNeedsTwoRows(r) ==
    /\ UNCHANGED notTopicVars
    /\ cl[r].pc = "match"
    /\ \/ cl' = [cl EXCEPT ![r].pc = "label", ![r].lookup = "ok",
                            ![r].hadMatch = WithinThreshold(cl[r].userId, cl[r].emb)]
       \/ cl' = [cl EXCEPT ![r].pc = "label", ![r].lookup = "error",
                            ![r].hadMatch = WithinThreshold(cl[r].userId, cl[r].emb)]
    /\ UNCHANGED <<topics, queries, folded>>

\* topics.ts:27-34, 65  the lookup; an error is treated as no match.
\* lookup and hadMatch record how the lookup went and what was stored then.
ClassifyMatch(r) ==
    /\ UNCHANGED notTopicVars
    /\ cl[r].pc = "match"
    /\ \/ \E t \in MatchUserTopic(cl[r].userId, cl[r].emb) :
             cl' = [cl EXCEPT ![r].pc = "select", ![r].topic = t, ![r].lookup = "ok",
                              ![r].hadMatch = WithinThreshold(cl[r].userId, cl[r].emb)]
       \/ /\ MatchUserTopic(cl[r].userId, cl[r].emb) = {}
          /\ cl' = [cl EXCEPT ![r].pc = "label", ![r].lookup = "ok",
                              ![r].hadMatch = WithinThreshold(cl[r].userId, cl[r].emb)]
       \/ cl' = [cl EXCEPT ![r].pc = "label", ![r].lookup = "error",
                            ![r].hadMatch = WithinThreshold(cl[r].userId, cl[r].emb)]
    /\ UNCHANGED <<topics, queries, folded>>

\* topics.ts:38-44  read the topic's embedding and query_count
ClassifySelect(r) ==
    /\ UNCHANGED notTopicVars
    /\ cl[r].pc = "select"
    /\ \/ LET t == topics[cl[r].topic]
          IN  cl' = [cl EXCEPT ![r].pc = "update", ![r].exNum = t.num,
                                ![r].exDen = t.den, ![r].exN = t.query_count]
       \/ cl' = [cl EXCEPT ![r].pc = "assign"]      \* no row came back
    /\ UNCHANGED <<topics, queries, folded>>

\* topics.ts:45-57  write the new centroid and count computed from the read
ClassifyUpdate(r) ==
    /\ UNCHANGED notTopicVars
    /\ cl[r].pc = "update"
    /\ LET c == RunningMean(cl[r].exNum, cl[r].exDen, cl[r].exN, cl[r].emb)
       IN  topics' = [topics EXCEPT ![cl[r].topic].num = c.num,
                                    ![cl[r].topic].den = c.den,
                                    ![cl[r].topic].query_count = cl[r].exN + 1]
    /\ cl' = [cl EXCEPT ![r].pc = "assign"]
    /\ folded' = [folded EXCEPT ![cl[r].topic] = Append(@, cl[r].emb)]
    /\ UNCHANGED queries

\* topics.ts:60-61
ClassifyAssign(r) ==
    /\ UNCHANGED notTopicVars
    /\ cl[r].pc = "assign"
    /\ queries' = [queries EXCEPT ![cl[r].queryId].topic_id = cl[r].topic]
    /\ cl' = [cl EXCEPT ![r].pc = "done", ![r].isNew = FALSE]
    /\ UNCHANGED <<topics, folded>>

\* topics.ts:66, llm.ts:110-155  the label, or the truncated query text
ClassifyLabel(r) ==
    /\ UNCHANGED notTopicVars
    /\ cl[r].pc = "label"
    /\ \E l \in {"llm", "fallback"} : cl' = [cl EXCEPT ![r].pc = "insert", ![r].label = l]
    /\ UNCHANGED <<topics, queries, folded>>

\* topics.ts:68-79  insert the new topic; an insert error is thrown
ClassifyInsert(r) ==
    /\ UNCHANGED notTopicVars
    /\ cl[r].pc = "insert"
    /\ \/ /\ topics' = Append(topics, [user_id |-> cl[r].userId, label |-> LabelText,
                                       num |-> cl[r].emb, den |-> 1, query_count |-> 1])
          /\ cl' = [cl EXCEPT ![r].pc = "assignNew", ![r].topic = Len(topics) + 1]
          /\ folded' = Append(folded, <<cl[r].emb>>)
       \/ /\ cl' = [cl EXCEPT ![r].pc = "threw"]    \* insertErr
          /\ UNCHANGED <<topics, folded>>
    /\ UNCHANGED queries

\* topics.ts:81-82
ClassifyAssignNew(r) ==
    /\ UNCHANGED notTopicVars
    /\ cl[r].pc = "assignNew"
    /\ queries' = [queries EXCEPT ![cl[r].queryId].topic_id = cl[r].topic]
    /\ cl' = [cl EXCEPT ![r].pc = "done", ![r].isNew = TRUE]
    /\ UNCHANGED <<topics, folded>>

\* The caller takes the result (or the rejection) and the slot is free again.
ClassifyReturn(r) ==
    /\ UNCHANGED notTopicVars
    /\ cl[r].pc \in {"done", "threw"}
    /\ cl' = [cl EXCEPT ![r] = IdleCall]
    /\ UNCHANGED <<topics, queries, folded>>

ClassifyStep(r) ==
    \/ ClassifyMatch(r)
    \/ ClassifySelect(r)
    \/ ClassifyUpdate(r)
    \/ ClassifyAssign(r)
    \/ ClassifyLabel(r)
    \/ ClassifyInsert(r)
    \/ ClassifyAssignNew(r)
    \/ ClassifyReturn(r)

NextTopics == \E r \in Slots : CallClassify(r, FALSE) \/ ClassifyStep(r)

NextTopicsSeq == \E r \in Slots : CallClassify(r, TRUE) \/ ClassifyStep(r)

---------------------------------------------------------------------------
(* Sources and connections: the tables, as the handlers write them *)

MaxPairs == 2      \* candidate pairs returned to one dedup sweep
MaxResults == 2    \* search results of one search request
MaxConns == 1      \* connections in one analysis output
MaxSearches == 1   \* search requests in one run
MaxSweeps == 1     \* dedup sweeps in one run

NullDoi == "null"
NoQuery == 0
NoSource == 0

\* Rows the harvesters write (ingest-arxiv/index.ts:213-225, part_005:453-466):
\* arXiv rows carry no doi, OpenAlex rows may.
Harvested ==
    { [id |-> 1, query_id |-> NoQuery, source_type |-> "arxiv",
       external_id |-> "a1", doi |-> NullDoi, emb |-> <<1, 0>>],
      [id |-> 2, query_id |-> NoQuery, source_type |-> "openalex",
       external_id |-> "o1", doi |-> "d1", emb |-> <<1, 0>>] }

FirstSearchId == 3

\* A corpus with near-duplicates across and within origin types: the
\* harvested rows, a second arXiv paper and a row a search stored
SweepCorpus ==
    Harvested \cup
    { [id |-> 3, query_id |-> NoQuery, source_type |-> "arxiv",
       external_id |-> "a2", doi |-> NullDoi, emb |-> <<1, 0>>],
      [id |-> 4, query_id |-> 1, source_type |-> "search",
       external_id |-> "null", doi |-> NullDoi, emb |-> <<1, 0>>] }

\* The schema is not part of the sources: a reference from connections to
\* sources is unchecked, refuses the delete, or deletes the referring rows.
FkPolicies == {"none", "restrict", "cascade"}

\* Columns of connections, as the handlers insert them (part_009:141-148)
ConnectionColumns == {"id", "query_id", "source_a_id", "source_b_id", "strength"}

SourceIds == {s.id : s \in sources}

SourceRow(id) == CHOOSE s \in sources : s.id = id

NextSourceId ==
    IF sources = {} /\ deleted = {} THEN FirstSearchId
    ELSE LET used == SourceIds \cup deleted \cup {FirstSearchId - 1}
         IN  (CHOOSE m \in used : \A x \in used : x <= m) + 1

Refs(c) == {c.source_a_id, c.source_b_id}

\* update(col := new) where col = old; a column the table does not have is an
\* error from the database, which changes nothing
UpdateConnectionsEq(col, new, old) ==
    IF col \in ConnectionColumns
    THEN {IF c[col] = old THEN [c EXCEPT ![col] = new] ELSE c : c \in connections}
    ELSE connections

\* chat/index.ts:434-439  typePriority[...] ?? 0
TypePriority(t) ==
    CASE t = "arxiv" -> 3 [] t = "openalex" -> 2 [] t = "search" -> 1 [] OTHER -> 0

\* chat/index.ts:444 with > for >=
WinnerOfStrict(a, b, aType, bType) ==
    IF TypePriority(aType) > TypePriority(bType) THEN a ELSE b

\* chat/index.ts:444
WinnerOf(a, b, aType, bType) ==
    IF TypePriority(aType) >= TypePriority(bType) THEN a ELSE b

\* chat/index.ts:445
LoserOf(a, b, aType, bType) ==
    IF WinnerOf(a, b, aType, bType) = a THEN b ELSE a

IdleDedup == [pc |-> "idle", duplicates |-> <<>>, i |-> 1, mergedIds |-> {},
              merged |-> 0, failed |-> 0, dryRun |-> FALSE, response |-> "none",
              winner |-> NoSource, loser |-> NoSource, loserDoi |-> NullDoi]

IdlePipe == [pc |-> "idle", queryId |-> NoQuery, results |-> 0,
             inserted |-> <<>>, analysis |-> {}, response |-> "none"]

NoSnap == [connections |-> {}, winnerDoi |-> NullDoi, loserDoi |-> NullDoi]

InitMergeVars(rows, policy) ==
    /\ sources = rows
    /\ connections = {}
    /\ fk = policy
    /\ dd = IdleDedup
    /\ pl = IdlePipe
    /\ runs = [sweeps |-> 0, searches |-> 0]
    /\ deleted = {}
    /\ snap = NoSnap

---------------------------------------------------------------------------
(* The search request, part_009:15-232, as far as sources and connections go *)

\* part_009:28-92  auth, rate limit, validation, query row, search, embedding;
\* any of them may fail the request
PipeStart ==
    /\ UNCHANGED notMergeVars
    /\ pl.pc = "idle"
    /\ runs.searches < MaxSearches
    /\ runs' = [runs EXCEPT !.searches = @ + 1]
    /\ \/ \E n \in 0..MaxResults :
             pl' = [IdlePipe EXCEPT !.pc = "storeSources",
                                    !.queryId = runs.searches + 1, !.results = n]
       \/ pl' = [IdlePipe EXCEPT !.pc = "responded", !.response = "error"]
    /\ UNCHANGED <<sources, connections, fk, dd, deleted, snap>>

\* part_009:96-114  insert the source rows, returning their ids
PipeStoreSources ==
    /\ UNCHANGED notMergeVars
    /\ pl.pc = "storeSources"
    /\ \/ LET ids == [k \in 1..pl.results |-> NextSourceId + k - 1]
          IN  /\ sources' = sources \cup
                    {[id |-> ids[k], query_id |-> pl.queryId, source_type |-> "search",
                      external_id |-> "null", doi |-> NullDoi, emb |-> <<1, 0>>]
                        : k \in 1..pl.results}
              /\ pl' = [pl EXCEPT !.pc = "parallel", !.inserted = ids]
       \/ /\ pl' = [pl EXCEPT !.pc = "responded", !.response = "error"]  \* sourceErr
          /\ UNCHANGED sources
    /\ UNCHANGED <<connections, fk, dd, runs, deleted, snap>>

\* Strengths an analysis may give, in tenths: one below 0, one above 1
Strengths == {-5, 15}

\* The connections an analysis may name: <<source_a_index, source_b_index,
\* strength>>; the indices -1 and MaxResults are out of range
AnalysisConnections == (-1..MaxResults) \X (-1..MaxResults) \X Strengths

\* part_009:147  Math.max(0, Math.min(1, c.strength)), in tenths
ClampStrength(x) == IF x < 0 THEN 0 ELSE IF x > 10 THEN 10 ELSE x

\* The analysis outputs that name at most n connections
RECURSIVE AnalysisOutputs(_)
AnalysisOutputs(n) ==
    IF n = 0 THEN {{}}
    ELSE LET fewer == AnalysisOutputs(n - 1)
         IN  fewer \cup {out \cup {c} : out \in fewer, c \in AnalysisConnections}

\* part_009:117-130  Promise.all: the analysis output, or a rejection
PipeParallel ==
    /\ UNCHANGED notMergeVars
    /\ pl.pc = "parallel"
    /\ \/ \E out \in AnalysisOutputs(MaxConns) :
             /\ pl' = [pl EXCEPT !.pc = "storeConns", !.analysis = out]
       \/ pl' = [pl EXCEPT !.pc = "responded", !.response = "error"]
    /\ UNCHANGED <<sources, connections, fk, dd, runs, deleted, snap>>

\* part_009:135-140 without the test of line 139 that the indices differ
KeptConnectionsAllowsEqual(inserted, out) ==
    {c \in out : c[1] < Len(inserted) /\ c[2] < Len(inserted)}

\* part_009:135-140  the filter on the analysis output
KeptConnections(inserted, out) ==
    {c \in out : c[1] < Len(inserted) /\ c[2] < Len(inserted) /\ c[1] # c[2]}

\* part_009:143-144  insertedSources[index].id of an index below 0 is read
\* off undefined and throws a TypeError
MapThrows(inserted, out) ==
    \E c \in KeptConnections(inserted, out) : c[1] < 0 \/ c[2] < 0

\* part_009:134-148  filter and map the analysis output to rows
ConnectionRows(queryId, inserted, out) ==
    {[id |-> <<queryId, c[1], c[2]>>, query_id |-> queryId,
      source_a_id |-> inserted[c[1] + 1], source_b_id |-> inserted[c[2] + 1],
      strength |-> ClampStrength(c[3])]
        : c \in KeptConnections(inserted, out)}

\* part_009:132-231  build the rows (a throw ends the request in the catch),
\* insert them (an insert error is only logged), store the synthesis, respond
PipeStoreConns ==
    /\ UNCHANGED notMergeVars
    /\ pl.pc = "storeConns"
    /\ IF MapThrows(pl.inserted, pl.analysis)
       THEN /\ pl' = [pl EXCEPT !.pc = "responded", !.response = "error"]
            /\ UNCHANGED connections
       ELSE /\ LET rows == ConnectionRows(pl.queryId, pl.inserted, pl.analysis)
                   valid == \A c \in rows : Refs(c) \subseteq SourceIds
               IN  connections' = IF fk = "none" \/ valid THEN connections \cup rows
                                  ELSE connections
            /\ pl' = [pl EXCEPT !.pc = "responded", !.response = "ok"]
    /\ UNCHANGED <<sources, fk, dd, runs, deleted, snap>>

PipeRespond ==
    /\ UNCHANGED notMergeVars
    /\ pl.pc = "responded"
    /\ pl' = IdlePipe
    /\ UNCHANGED <<sources, connections, fk, dd, runs, deleted, snap>>

\* The search request alone
NextPipe ==
    \/ PipeStart
    \/ PipeStoreSources
    \/ PipeParallel
    \/ PipeStoreConns
    \/ PipeRespond

---------------------------------------------------------------------------
(* DedupEngine: the dedup-sources handler and mergePair, chat/index.ts:413-613 *)

\* RPC find_duplicate_sources: pairs of stored rows with their types
PairRows ==
    {[source_a_id |-> a.id, source_b_id |-> b.id,
      source_a_type |-> a.source_type, source_b_type |-> b.source_type]
        : <<a, b>> \in {p \in sources \X sources : p[1].id # p[2].id}}

PairLists == UNION {[1..n -> PairRows] : n \in 0..MaxPairs}

\* chat/index.ts:501-557 without the dry-run return of lines 542-556
DedupStartIgnoresDryRun ==
    /\ UNCHANGED notMergeVars
    /\ dd.pc = "idle"
    /\ runs.sweeps < MaxSweeps
    /\ runs' = [runs EXCEPT !.sweeps = @ + 1]
    /\ \/ \E dry \in BOOLEAN, ps \in PairLists :
             dd' = [IdleDedup EXCEPT !.duplicates = ps, !.dryRun = dry, !.pc = "loop"]
       \/ dd' = [IdleDedup EXCEPT !.pc = "responded", !.response = "error"]
    /\ UNCHANGED <<sources, connections, fk, pl, deleted, snap>>

\* chat/index.ts:501-557  auth, options, the RPC, and the dry-run response
DedupStart ==
    /\ UNCHANGED notMergeVars
    /\ dd.pc = "idle"
    /\ runs.sweeps < MaxSweeps
    /\ runs' = [runs EXCEPT !.sweeps = @ + 1]
    /\ \/ \E dry \in BOOLEAN, ps \in PairLists :
             dd' = [IdleDedup EXCEPT !.duplicates = ps, !.dryRun = dry,
                       !.pc = IF dry THEN "responded" ELSE "loop",
                       !.response = IF dry THEN "dry_run" ELSE "none"]
       \/ dd' = [IdleDedup EXCEPT !.pc = "responded", !.response = "error"]
    /\ UNCHANGED <<sources, connections, fk, pl, deleted, snap>>

\* chat/index.ts:564-565  skip a pair with a source merged away in this run
DedupSkip ==
    /\ UNCHANGED notMergeVars
    /\ dd.pc = "loop"
    /\ dd.i <= Len(dd.duplicates)
    /\ LET pair == dd.duplicates[dd.i]
       IN  pair.source_a_id \in dd.mergedIds \/ pair.source_b_id \in dd.mergedIds
    /\ dd' = [dd EXCEPT !.i = @ + 1]
    /\ UNCHANGED <<sources, connections, fk, pl, runs, deleted, snap>>

\* chat/index.ts:568-574, 427-445  call mergePair: pick winner and loser
DedupCallMerge ==
    /\ UNCHANGED notMergeVars
    /\ dd.pc = "loop"
    /\ dd.i <= Len(dd.duplicates)
    /\ LET pair == dd.duplicates[dd.i]
           w == WinnerOf(pair.source_a_id, pair.source_b_id,
                         pair.source_a_type, pair.source_b_type)
           l == LoserOf(pair.source_a_id, pair.source_b_id,
                        pair.source_a_type, pair.source_b_type)
       IN  /\ pair.source_a_id \notin dd.mergedIds
           /\ pair.source_b_id \notin dd.mergedIds
           /\ dd' = [dd EXCEPT !.pc = "repointA", !.winner = w, !.loser = l,
                               !.loserDoi = NullDoi]
           /\ snap' = [connections |-> connections,
                       winnerDoi |-> IF w \in SourceIds THEN SourceRow(w).doi ELSE NullDoi,
                       loserDoi |-> IF l \in SourceIds THEN SourceRow(l).doi ELSE NullDoi]
    /\ UNCHANGED <<sources, connections, fk, pl, runs, deleted>>

\* chat/index.ts:447-451  update({ source_a: winnerId }).eq("source_a", loserId)
MergeRepointA ==
    /\ UNCHANGED notMergeVars
    /\ dd.pc = "repointA"
    /\ connections' = UpdateConnectionsEq("source_a", dd.winner, dd.loser)
    /\ dd' = [dd EXCEPT !.pc = "repointB"]
    /\ UNCHANGED <<sources, fk, pl, runs, deleted, snap>>

\* chat/index.ts:452-455  update({ source_b: winnerId }).eq("source_b", loserId)
MergeRepointB ==
    /\ UNCHANGED notMergeVars
    /\ dd.pc = "repointB"
    /\ connections' = UpdateConnectionsEq("source_b", dd.winner, dd.loser)
    /\ dd' = [dd EXCEPT !.pc = "readLoserDoi"]
    /\ UNCHANGED <<sources, fk, pl, runs, deleted, snap>>

\* chat/index.ts:458-463  read the loser's doi; no row reads as no doi
MergeReadLoserDoi ==
    /\ UNCHANGED notMergeVars
    /\ dd.pc = "readLoserDoi"
    /\ \E d \in {IF dd.loser \in SourceIds THEN SourceRow(dd.loser).doi ELSE NullDoi,
                 NullDoi} :
          dd' = [dd EXCEPT !.loserDoi = d,
                           !.pc = IF d # NullDoi THEN "readWinnerDoi" ELSE "delete"]
    /\ UNCHANGED <<sources, connections, fk, pl, runs, deleted, snap>>

\* chat/index.ts:464-469  read the winner's doi; no row reads as no doi
MergeReadWinnerDoi ==
    /\ UNCHANGED notMergeVars
    /\ dd.pc = "readWinnerDoi"
    /\ \E d \in {IF dd.winner \in SourceIds THEN SourceRow(dd.winner).doi ELSE NullDoi,
                 NullDoi} :
          dd' = [dd EXCEPT !.pc = IF d = NullDoi THEN "copyDoi" ELSE "delete"]
    /\ UNCHANGED <<sources, connections, fk, pl, runs, deleted, snap>>

\* chat/index.ts:470  update({ doi: loserData.doi }).eq("id", winnerId)
MergeCopyDoi ==
    /\ UNCHANGED notMergeVars
    /\ dd.pc = "copyDoi"
    /\ sources' = {IF s.id = dd.winner THEN [s EXCEPT !.doi = dd.loserDoi] ELSE s
                      : s \in sources}
    /\ dd' = [dd EXCEPT !.pc = "delete"]
    /\ UNCHANGED <<connections, fk, pl, runs, deleted, snap>>

\* chat/index.ts:474-479  delete the loser; an error is thrown
MergeDelete ==
    /\ UNCHANGED notMergeVars
    /\ dd.pc = "delete"
    /\ LET referring == {c \in connections : dd.loser \in Refs(c)}
       IN  \/ /\ fk = "restrict" => referring = {}
              /\ sources' = {s \in sources : s.id # dd.loser}
              /\ deleted' = IF dd.loser \in SourceIds THEN deleted \cup {dd.loser}
                            ELSE deleted
              /\ connections' = IF fk = "cascade" THEN connections \ referring
                                ELSE connections
              /\ dd' = [dd EXCEPT !.pc = "merged"]
           \/ /\ dd' = [dd EXCEPT !.pc = "threw"]
              /\ UNCHANGED <<sources, connections, deleted>>
    /\ UNCHANGED <<fk, pl, runs, snap>>

\* chat/index.ts:575 as mergedIds.add(winner)
DedupMergedAddsWinner ==
    /\ UNCHANGED notMergeVars
    /\ dd.pc = "merged"
    /\ dd' = [dd EXCEPT !.pc = "loop", !.i = @ + 1, !.merged = @ + 1,
                        !.mergedIds = @ \cup {dd.winner}]
    /\ UNCHANGED <<sources, connections, fk, pl, runs, deleted, snap>>

\* chat/index.ts:488-489, 575-576  mergePair returns { winner, loser }
DedupMerged ==
    /\ UNCHANGED notMergeVars
    /\ dd.pc = "merged"
    /\ dd' = [dd EXCEPT !.pc = "loop", !.i = @ + 1, !.merged = @ + 1,
                        !.mergedIds = @ \cup {dd.loser}]
    /\ UNCHANGED <<sources, connections, fk, pl, runs, deleted, snap>>

\* chat/index.ts:577-583  mergePair threw
DedupMergeFailed ==
    /\ UNCHANGED notMergeVars
    /\ dd.pc = "threw"
    /\ dd' = [dd EXCEPT !.pc = "loop", !.i = @ + 1, !.failed = @ + 1]
    /\ UNCHANGED <<sources, connections, fk, pl, runs, deleted, snap>>

\* chat/index.ts:586-594  the sweep's summary
DedupSummary ==
    /\ UNCHANGED notMergeVars
    /\ dd.pc = "loop"
    /\ dd.i > Len(dd.duplicates)
    /\ dd' = [dd EXCEPT !.pc = "responded", !.response = "summary"]
    /\ UNCHANGED <<sources, connections, fk, pl, runs, deleted, snap>>

DedupRespond ==
    /\ UNCHANGED notMergeVars
    /\ dd.pc = "responded"
    /\ dd' = IdleDedup
    /\ UNCHANGED <<sources, connections, fk, pl, runs, deleted, snap>>

\* mergePair has been called and has not returned or thrown
MergeRunning ==
    dd.pc \in {"repointA", "repointB", "readLoserDoi", "readWinnerDoi",
               "copyDoi", "delete"}

\* The dedup-sources handler alone
NextSweep ==
    \/ DedupStart
    \/ DedupSkip
    \/ DedupCallMerge
    \/ MergeRepointA
    \/ MergeRepointB
    \/ MergeReadLoserDoi
    \/ MergeReadWinnerDoi
    \/ MergeCopyDoi
    \/ MergeDelete
    \/ DedupMerged
    \/ DedupMergeFailed
    \/ DedupSummary
    \/ DedupRespond

NextMerge ==
    \/ PipeStart
    \/ PipeStoreSources
    \/ PipeParallel
    \/ PipeStoreConns
    \/ PipeRespond
    \/ DedupStart
    \/ DedupSkip
    \/ DedupCallMerge
    \/ MergeRepointA
    \/ MergeRepointB
    \/ MergeReadLoserDoi
    \/ MergeReadWinnerDoi
    \/ MergeCopyDoi
    \/ MergeDelete
    \/ DedupMerged
    \/ DedupMergeFailed
    \/ DedupSummary
    \/ DedupRespond

---------------------------------------------------------------------------
(* ResearchScheduler: the auto-research handler and processDirection,      *)
(* insights/index.ts:449-752                                               *)

MaxDirections == 2   \* directions returned to one scheduler cycle
MaxCycles == 1       \* scheduler cycles in one run
MaxFound == 1        \* search results for one bridge query

Terminal == {"completed", "exhausted", "failed"}

NoRow == 0

\* insights/index.ts:600  err.message: the text itself plays no part
ErrorText == "message"

\* A bridge_score_after not written yet
NullScore == <<0, 0>>

\* What pair_bridge_score may answer for a direction's pair once new sources
\* are stored; the tables themselves are not part of this specification
FreshScores == {<<0, 1>>, <<1, 2>>}

IdleSched == [pc |-> "idle", n |-> 0, i |-> 1, row |-> NoRow, found |-> 0,
              err |-> "", results |-> <<>>, response |-> "none",
              score |-> NullScore,    \* what computeBridgeScore returned
              fresh |-> NullScore]    \* history: the pair's score on the tables

InitSchedVars ==
    /\ directions = <<>>
    /\ sc = IdleSched
    /\ cycles = 0
    /\ outcome = <<>>

\* insights/index.ts:625-670  auth, options, identify_research_directions
SchedStart ==
    /\ UNCHANGED notSchedVars
    /\ sc.pc = "idle"
    /\ cycles < MaxCycles
    /\ cycles' = cycles + 1
    /\ outcome' = <<>>
    /\ \/ \E n \in 1..MaxDirections : sc' = [IdleSched EXCEPT !.pc = "lookupUser", !.n = n]
       \/ sc' = [IdleSched EXCEPT !.pc = "responded", !.response = "none_found"]
       \/ sc' = [IdleSched EXCEPT !.pc = "responded", !.response = "error"]
    /\ UNCHANGED directions

\* A step of processDirection that only awaits a collaborator: it succeeds
\* and goes on to pc next, or throws to the handler at pc onThrow
AwaitStep(from, next, onThrow) ==
    /\ UNCHANGED notSchedVars
    /\ sc.pc = from
    /\ \/ sc' = [sc EXCEPT !.pc = next]
       \/ sc' = [sc EXCEPT !.pc = onThrow, !.err = ErrorText]
    /\ UNCHANGED <<directions, cycles, outcome>>

\* insights/index.ts:454-461  the owner of topic_a; none is thrown
PdLookupUser == AwaitStep("lookupUser", "generateQuery", "threw")

\* insights/index.ts:464  generateBridgeQuery
PdGenerateQuery == AwaitStep("generateQuery", "insertRow", "threw")

\* insights/index.ts:467-476  the row is created in 'searching'
PdInsertRow ==
    /\ UNCHANGED notSchedVars
    /\ sc.pc = "insertRow"
    /\ \/ /\ directions' = Append(directions,
                 [status |-> "searching", error |-> "", sources_found |-> 0,
                  bridge_score_after |-> NullScore])
          /\ sc' = [sc EXCEPT !.pc = "insertQuery", !.row = Len(directions) + 1]
       \/ /\ sc' = [sc EXCEPT !.pc = "threw", !.err = ErrorText]
          /\ UNCHANGED directions
    /\ UNCHANGED <<cycles, outcome>>

\* insights/index.ts:480-489  the query row, inside the try
PdInsertQuery == AwaitStep("insertQuery", "search", "catch")

\* insights/index.ts:492  searchExa
PdSearch ==
    /\ UNCHANGED notSchedVars
    /\ sc.pc = "search"
    /\ \/ \E k \in 0..MaxFound :
             sc' = [sc EXCEPT !.found = k, !.pc = IF k = 0 THEN "exhausted" ELSE "embed"]
       \/ sc' = [sc EXCEPT !.pc = "catch", !.err = ErrorText]
    /\ UNCHANGED <<directions, cycles, outcome>>

\* insights/index.ts:494-501  no results: 'exhausted', and return
PdExhaustedFallsThrough ==
    /\ UNCHANGED notSchedVars
    /\ sc.pc = "exhausted"
    /\ directions' = [directions EXCEPT ![sc.row].status = "exhausted",
                                        ![sc.row].sources_found = 0]
    /\ sc' = [sc EXCEPT !.pc = "embed"]
    /\ UNCHANGED <<cycles, outcome>>

PdExhausted ==
    /\ UNCHANGED notSchedVars
    /\ sc.pc = "exhausted"
    /\ directions' = [directions EXCEPT ![sc.row].status = "exhausted",
                                        ![sc.row].sources_found = 0]
    /\ sc' = [sc EXCEPT !.pc = "returned"]
    /\ UNCHANGED <<cycles, outcome>>

\* insights/index.ts:504-512  embedTexts
PdEmbed == AwaitStep("embed", "storeSources", "catch")

\* insights/index.ts:515-531  insert the sources
PdStoreSources == AwaitStep("storeSources", "parallel", "catch")

\* insights/index.ts:534-547  Promise.all of classify, cross-query, analysis
PdParallel == AwaitStep("parallel", "storeConns", "catch")

\* insights/index.ts:550-571  build and insert the connection rows
PdStoreConns == AwaitStep("storeConns", "storeSynthesis", "catch")

\* insights/index.ts:574-587  the synthesis row and the new bridge score:
\* neither result is tested for an error that would throw
PdStoreSynthesis ==
    /\ UNCHANGED notSchedVars
    /\ sc.pc = "storeSynthesis"
    /\ sc' = [sc EXCEPT !.pc = "bridgeScore"]
    /\ UNCHANGED <<directions, cycles, outcome>>

\* insights/index.ts:582-587, 426-443  computeBridgeScore: the RPC's answer,
\* or 0 when the RPC gives an error
PdBridgeScore ==
    /\ UNCHANGED notSchedVars
    /\ sc.pc = "bridgeScore"
    /\ \E answer \in FreshScores, ok \in BOOLEAN :
          sc' = [sc EXCEPT !.pc = "complete", !.fresh = answer,
                           !.score = IF ok THEN answer ELSE <<0, 1>>]
    /\ UNCHANGED <<directions, cycles, outcome>>

\* insights/index.ts:590-598  'completed', and return
PdCompleted ==
    /\ UNCHANGED notSchedVars
    /\ sc.pc = "complete"
    /\ directions' = [directions EXCEPT ![sc.row].status = "completed",
                                        ![sc.row].sources_found = sc.found,
                                        ![sc.row].bridge_score_after = sc.score]
    /\ sc' = [sc EXCEPT !.pc = "returned"]
    /\ UNCHANGED <<cycles, outcome>>

\* insights/index.ts:599-607  the catch: 'failed' with the message, rethrow
PdCatch ==
    /\ UNCHANGED notSchedVars
    /\ sc.pc = "catch"
    /\ directions' = [directions EXCEPT ![sc.row].status = "failed",
                                        ![sc.row].error = sc.err]
    /\ sc' = [sc EXCEPT !.pc = "threw"]
    /\ UNCHANGED <<cycles, outcome>>

\* insights/index.ts:684-713 with the refresh inside the loop's body
AfterDirectionRefreshesAtOnce(status) ==
    [sc EXCEPT !.results = Append(@, status), !.i = @ + 1, !.row = NoRow,
               !.found = 0, !.err = "", !.score = NullScore, !.fresh = NullScore,
               !.pc = "refresh"]

\* insights/index.ts:684-713  the handler's loop goes on to the next
\* direction, or to the refresh
AfterDirection(status) ==
    [sc EXCEPT !.results = Append(@, status), !.i = @ + 1, !.row = NoRow,
               !.found = 0, !.err = "", !.score = NullScore, !.fresh = NullScore,
               !.pc = IF sc.i < sc.n THEN "lookupUser" ELSE "refresh"]

\* insights/index.ts:686-694  processDirection returned
SchedReturned ==
    /\ UNCHANGED notSchedVars
    /\ sc.pc = "returned"
    /\ sc' = AfterDirection("completed")
    /\ outcome' = Append(outcome, [threw |-> FALSE, row |-> sc.row])
    /\ UNCHANGED <<directions, cycles>>

\* insights/index.ts:695-709  processDirection threw
SchedCaught ==
    /\ UNCHANGED notSchedVars
    /\ sc.pc = "threw"
    /\ sc' = AfterDirection("failed")
    /\ outcome' = Append(outcome, [threw |-> TRUE, row |-> sc.row])
    /\ UNCHANGED <<directions, cycles>>

\* insights/index.ts:712-737  refresh the materialized view, respond
SchedRefresh ==
    /\ UNCHANGED notSchedVars
    /\ sc.pc = "refresh"
    /\ sc' = [sc EXCEPT !.pc = "responded", !.response = "ok"]
    /\ UNCHANGED <<directions, cycles, outcome>>

SchedRespond ==
    /\ UNCHANGED notSchedVars
    /\ sc.pc = "responded"
    /\ sc' = IdleSched
    /\ UNCHANGED <<directions, cycles, outcome>>

NextSched ==
    \/ SchedStart
    \/ PdLookupUser
    \/ PdGenerateQuery
    \/ PdInsertRow
    \/ PdInsertQuery
    \/ PdSearch
    \/ PdExhausted
    \/ PdEmbed
    \/ PdStoreSources
    \/ PdParallel
    \/ PdStoreConns
    \/ PdStoreSynthesis
    \/ PdBridgeScore
    \/ PdCompleted
    \/ PdCatch
    \/ SchedReturned
    \/ SchedCaught
    \/ SchedRefresh
    \/ SchedRespond

---------------------------------------------------------------------------
(* The search request around its three parallel tasks, part_009:15-232 *)

MaxRequests == 2   \* search requests in one run

Handler == 1       \* the classify slot the request uses

IdleRequest == [pc |-> "idle", cross |-> "none", analysis |-> "none",
                response |-> "none", cause |-> "none",
                connStored |-> FALSE,    \* connections rows written for the query
                synthStored |-> FALSE]   \* a syntheses row written for the query

InitSearchVars ==
    /\ rq = IdleRequest
    /\ requests = 0

\* part_009:28-130  auth, rate limit, validation, query row, search,
\* embedding and source rows (any of which may fail the request), then the
\* three tasks of Promise.all are started
ReqStart ==
    /\ UNCHANGED notSearchVars
    /\ rq.pc = "idle"
    /\ cl[Handler].pc \in {"idle", "done", "threw"}
    /\ requests < MaxRequests
    /\ requests' = requests + 1
    /\ \/ /\ \E u \in Users, e \in Embeddings :
                /\ queries' = Append(queries,
                                     [user_id |-> u, topic_id |-> NoTopic, emb |-> e])
                /\ cl' = [cl EXCEPT ![Handler] =
                             [IdleCall EXCEPT !.pc = "match", !.queryId = Len(queries) + 1,
                                              !.userId = u, !.emb = e,
                                              !.before = topics]]
          /\ rq' = [IdleRequest EXCEPT !.pc = "await", !.cross = "running",
                                       !.analysis = "running"]
       \/ /\ rq' = [IdleRequest EXCEPT !.pc = "responded", !.response = "error",
                                       !.cause = "early"]
          /\ UNCHANGED <<queries, cl>>
    /\ UNCHANGED <<topics, folded>>

\* part_008:17-58  findRelatedSources: a failed lookup logs and yields no
\* matches, a rejected one is dropped by allSettled; the call always fulfils
ReqCrossQuery ==
    /\ UNCHANGED notSearchVars
    /\ rq.cross = "running"
    /\ \E r \in {"fulfilled", "fulfilled_some_lookups_failed"} : rq' = [rq EXCEPT !.cross = r]
    /\ UNCHANGED <<topicVars, requests>>

\* llm.ts:77-108  analyzeConnections: fulfils, or rejects after its retries
ReqAnalysis ==
    /\ UNCHANGED notSearchVars
    /\ rq.analysis = "running"
    /\ \E r \in {"fulfilled", "rejected"} : rq' = [rq EXCEPT !.analysis = r]
    /\ UNCHANGED <<topicVars, requests>>

\* part_009:117-130 with Promise.allSettled: the handler goes on when all
\* three tasks have settled
ReqAllSettled ==
    /\ UNCHANGED notSearchVars
    /\ rq.pc = "await"
    /\ cl[Handler].pc = "done"
    /\ rq.cross \in {"fulfilled", "fulfilled_some_lookups_failed"}
    /\ rq.analysis \in {"fulfilled", "rejected"}
    /\ rq' = [rq EXCEPT !.pc = "store"]
    /\ UNCHANGED <<topicVars, requests>>

\* part_009:117-130  Promise.all fulfils when all three tasks have
ReqAllFulfilled ==
    /\ UNCHANGED notSearchVars
    /\ rq.pc = "await"
    /\ cl[Handler].pc = "done"
    /\ rq.cross \in {"fulfilled", "fulfilled_some_lookups_failed"}
    /\ rq.analysis = "fulfilled"
    /\ rq' = [rq EXCEPT !.pc = "store"]
    /\ UNCHANGED <<topicVars, requests>>

\* part_009:117-130, 211-231  Promise.all rejects with the first rejection
\* and the catch answers with the error; the other tasks run on
ReqRejected ==
    /\ UNCHANGED notSearchVars
    /\ rq.pc = "await"
    /\ \/ /\ cl[Handler].pc = "threw"
          /\ rq' = [rq EXCEPT !.pc = "responded", !.response = "error",
                              !.cause = "classify"]
       \/ /\ rq.analysis = "rejected"
          /\ rq' = [rq EXCEPT !.pc = "responded", !.response = "error",
                              !.cause = "analysis"]
    /\ UNCHANGED <<topicVars, requests>>

\* part_009:132-210  connections (when the analysis gave any) and synthesis
\* are stored (insert errors are logged only) and the request answers 200
ReqStore ==
    /\ UNCHANGED notSearchVars
    /\ rq.pc = "store"
    /\ \E conn \in BOOLEAN, synth \in BOOLEAN :
          rq' = [rq EXCEPT !.pc = "responded", !.response = "ok",
                           !.connStored = conn, !.synthStored = synth]
    /\ UNCHANGED <<topicVars, requests>>

ReqDone ==
    /\ UNCHANGED notSearchVars
    /\ rq.pc = "responded"
    /\ rq.cross # "running" /\ rq.analysis # "running"
    /\ rq' = IdleRequest
    /\ UNCHANGED <<topicVars, requests>>

NextSearch ==
    \/ ReqStart
    \/ ClassifyMatch(Handler)
    \/ ClassifySelect(Handler)
    \/ ClassifyUpdate(Handler)
    \/ ClassifyAssign(Handler)
    \/ ClassifyLabel(Handler)
    \/ ClassifyInsert(Handler)
    \/ ClassifyAssignNew(Handler)
    \/ ReqCrossQuery
    \/ ReqAnalysis
    \/ ReqAllFulfilled
    \/ ReqRejected
    \/ ReqStore
    \/ ReqDone

---------------------------------------------------------------------------
(* Properties of the search request *)

\* C8: a search request is never failed because of a failure inside the
\* TopicClassifier or the CrossQueryMatcher: when it answers with an error,
\* the error came from an earlier stage or from the analysis.
ClassifierFailuresAbsorbed ==
    rq.response = "error" => rq.cause \in {"early", "analysis"}

---------------------------------------------------------------------------
(* Harvest ingestion: embedAndInsertBatch of ingest-arxiv/index.ts:181-250 *)
(* and of the OpenAlex harvester, part_005:399-494                         *)

MaxJobs == 2       \* harvest batches in progress at once
MaxBatches == 2    \* harvest batches in one run
MaxBatch == 2      \* works in one batch

Jobs == 1..MaxJobs

\* What a harvester fetched: arXiv papers carry no DOI (ingest-arxiv/index.ts:
\* 220-232); the same work may come back with revised content, and two
\* OpenAlex works may carry one DOI.
HarvestWorks ==
    { [source_type |-> "arxiv", external_id |-> "a1", doi |-> NullDoi, emb |-> <<1, 0>>],
      [source_type |-> "arxiv", external_id |-> "a1", doi |-> NullDoi, emb |-> <<1, 1>>],
      [source_type |-> "openalex", external_id |-> "o1", doi |-> "d1", emb |-> <<1, 0>>],
      [source_type |-> "openalex", external_id |-> "o2", doi |-> "d1", emb |-> <<1, 0>>] }

HarvestBatches ==
    {b \in SUBSET HarvestWorks :
        /\ b # {}
        /\ Cardinality(b) <= MaxBatch
        /\ \A v, w \in b : v.source_type = w.source_type
        /\ \A v, w \in b : v.external_id = w.external_id => v = w}

IdleJob == [pc |-> "idle", batch |-> {}, existingIds |-> {}, news |-> {},
            conflicted |-> {}]

InitIngestVars ==
    /\ ing = [j \in Jobs |-> IdleJob]
    /\ batches = 0

SameKey(s, w) == s.source_type = w.source_type /\ s.external_id = w.external_id

\* upsert(rows, {onConflict: "source_type,external_id", ignoreDuplicates:
\* false}): a row whose key is stored overwrites the stored row's columns
RECURSIVE UpsertMergeDuplicates(_, _, _)
UpsertMergeDuplicates(table, rows, nextId) ==
    IF rows = {} THEN table
    ELSE LET w == CHOOSE x \in rows : TRUE
         IN  IF \E s \in table : SameKey(s, w)
             THEN UpsertMergeDuplicates(
                      {IF SameKey(s, w) THEN [s EXCEPT !.doi = w.doi, !.emb = w.emb] ELSE s
                          : s \in table},
                      rows \ {w}, nextId)
             ELSE UpsertMergeDuplicates(
                      table \cup {[id |-> nextId, query_id |-> NoQuery,
                                   source_type |-> w.source_type,
                                   external_id |-> w.external_id,
                                   doi |-> w.doi, emb |-> w.emb]},
                      rows \ {w}, nextId + 1)

\* ingest-arxiv/index.ts:231-234, part_005:474-477
\* upsert(rows, {onConflict: "source_type,external_id", ignoreDuplicates:
\* true}): a row whose key is stored is skipped, the others are inserted
RECURSIVE UpsertIgnoreDuplicates(_, _, _)
UpsertIgnoreDuplicates(table, rows, nextId) ==
    IF rows = {} THEN table
    ELSE LET w == CHOOSE x \in rows : TRUE
         IN  IF \E s \in table : SameKey(s, w)
             THEN UpsertIgnoreDuplicates(table, rows \ {w}, nextId)
             ELSE UpsertIgnoreDuplicates(
                      table \cup {[id |-> nextId, query_id |-> NoQuery,
                                   source_type |-> w.source_type,
                                   external_id |-> w.external_id,
                                   doi |-> w.doi, emb |-> w.emb]},
                      rows \ {w}, nextId + 1)

\* The harvester hands a fetched batch to embedAndInsertBatch
IngestStart(j) ==
    /\ UNCHANGED notIngestVars
    /\ ing[j].pc = "idle"
    /\ batches < MaxBatches
    /\ batches' = batches + 1
    /\ \E b \in HarvestBatches :
          ing' = [ing EXCEPT ![j] = [IdleJob EXCEPT !.pc = "checkIds", !.batch = b]]
    /\ UNCHANGED sources

\* ingest-arxiv/index.ts:187-201, part_005:405-415
\* the stored external ids of the batch are read (existing ?? []: a failed
\* read counts as none stored); the arXiv job filters and goes on
IngestCheckIds(j) ==
    /\ UNCHANGED notIngestVars
    /\ ing[j].pc = "checkIds"
    /\ LET b == ing[j].batch
           found == {s.external_id : s \in {s \in sources : \E w \in b : SameKey(s, w)}}
       IN  \E ex \in {found, {}} :
              IF \E w \in b : w.source_type = "openalex"
              THEN ing' = [ing EXCEPT ![j].pc = "checkDois", ![j].existingIds = ex]
              ELSE LET news == {w \in b : w.external_id \notin ex}
                   IN  ing' = [ing EXCEPT ![j].pc = IF news = {} THEN "returned" ELSE "embed",
                                          ![j].existingIds = ex, ![j].news = news]
    /\ UNCHANGED <<sources, batches>>

\* part_005:417-443  the stored DOIs among those of the batch's unknown works
\* are read (doiMatches ?? []), when there are any to check
IngestCheckDois(j) ==
    /\ UNCHANGED notIngestVars
    /\ ing[j].pc = "checkDois"
    /\ LET b == ing[j].batch
           doisToCheck == {w.doi : w \in {w \in b : /\ w.doi # NullDoi
                                                   /\ w.external_id \notin ing[j].existingIds}}
           found == {s.doi : s \in {s \in sources : s.doi \in doisToCheck}}
       IN  \E existingDois \in (IF doisToCheck = {} THEN {{}} ELSE {found, {}}) :
              LET news == {w \in b : /\ w.external_id \notin ing[j].existingIds
                                     /\ ~(w.doi # NullDoi /\ w.doi \in existingDois)}
              IN  ing' = [ing EXCEPT ![j].pc = IF news = {} THEN "returned" ELSE "embed",
                                     ![j].news = news]
    /\ UNCHANGED <<sources, batches>>

\* ingest-arxiv/index.ts:203-210, part_005:445-451  embedTexts, which may throw
IngestEmbed(j) ==
    /\ UNCHANGED notIngestVars
    /\ ing[j].pc = "embed"
    /\ \E next \in {"upsert", "threw"} : ing' = [ing EXCEPT ![j].pc = next]
    /\ UNCHANGED <<sources, batches>>

\* ingest-arxiv/index.ts:212-242, part_005:453-486  the rows are upserted; an
\* error is thrown
IngestUpsert(j) ==
    /\ UNCHANGED notIngestVars
    /\ ing[j].pc = "upsert"
    /\ \/ /\ sources' = UpsertIgnoreDuplicates(sources, ing[j].news, NextSourceId)
          /\ ing' = [ing EXCEPT ![j].pc = "returned",
                                ![j].conflicted =
                                    {w \in ing[j].news : \E s \in sources : SameKey(s, w)}]
       \/ /\ ing' = [ing EXCEPT ![j].pc = "threw"]
          /\ UNCHANGED sources
    /\ UNCHANGED batches

\* ingest-arxiv/index.ts:244-249, part_005:488-493
IngestReturn(j) ==
    /\ UNCHANGED notIngestVars
    /\ ing[j].pc \in {"returned", "threw"}
    /\ ing' = [ing EXCEPT ![j] = IdleJob]
    /\ UNCHANGED <<sources, batches>>

NextIngest ==
    \E j \in Jobs :
        \/ IngestStart(j)
        \/ IngestCheckIds(j)
        \/ IngestCheckDois(j)
        \/ IngestEmbed(j)
        \/ IngestUpsert(j)
        \/ IngestReturn(j)

---------------------------------------------------------------------------
(* CrossQueryMatcher: findRelatedSources, part_008:17-58 *)

MaxStored == 3     \* source rows in the table
MaxLookups == 1    \* calls of findRelatedSources in one run
MaxStores == 2     \* queries whose results are stored in one run

\* part_008:22-23  threshold = 0.54 as the fraction 54/100, limit = 5
CrossThresholdNum == 54
CrossThresholdDen == 100
MatchLimit == 5

CrossEmbeddings == {<<1, 0>>, <<0, 1>>}

EmbeddingLists ==
    UNION {[1..n -> CrossEmbeddings] : n \in 1..MaxResults}

IdleMatcher == [pc |-> "idle", queryId |-> NoQuery, embs |-> <<>>, pending |-> {},
                matches |-> {},
                failed |-> {},    \* history: the indices whose lookup failed
                rows |-> <<>>]    \* history: the row ids each lookup returned

InitCrossVars ==
    /\ xm = IdleMatcher
    /\ lookups = 0
    /\ stores = 0

\* RPC match_sources: the rows at similarity >= threshold that do not belong
\* to the excluded query, the count most similar ones
MatchSources(emb, num, den, count, exclude) ==
    LET cand == {s \in sources : /\ CosineAtLeast(s.emb, emb, num, den)
                                 /\ s.query_id # exclude}
    IN  IF Cardinality(cand) <= count THEN cand
        ELSE CHOOSE top \in SUBSET cand :
                /\ Cardinality(top) = count
                /\ \A s \in top, t \in cand \ top : CosineGeq(s.emb, t.emb, emb)

\* part_008:31-36 without the exclude_query_id of line 35
MatchSourcesCallNoExclude(embedding, currentQueryId) ==
    MatchSources(embedding, CrossThresholdNum, CrossThresholdDen, MatchLimit, NoQuery)

\* part_008:31-36  db.rpc("match_sources", {..., exclude_query_id: currentQueryId})
MatchSourcesCall(embedding, currentQueryId) ==
    MatchSources(embedding, CrossThresholdNum, CrossThresholdDen, MatchLimit,
                 currentQueryId)

\* part_009:72-114  a request creates its query and stores the query's sources
CrossStore ==
    /\ UNCHANGED notCrossVars
    /\ stores < MaxStores
    /\ \E embs \in EmbeddingLists :
          /\ Cardinality(sources) + Len(embs) <= MaxStored
          /\ sources' = sources \cup
                {[id |-> NextSourceId + k - 1, query_id |-> stores + 1,
                  source_type |-> "search", external_id |-> "null", doi |-> NullDoi,
                  emb |-> embs[k]] : k \in 1..Len(embs)}
    /\ stores' = stores + 1
    /\ UNCHANGED <<xm, lookups>>

\* part_008:17-29  findRelatedSources(embeddings, currentQueryId) is called
\* and fires one lookup per embedding
CrossCall ==
    /\ UNCHANGED notCrossVars
    /\ xm.pc \in {"idle", "returned"}
    /\ lookups < MaxLookups
    /\ lookups' = lookups + 1
    /\ \E q \in 1..stores, embs \in EmbeddingLists :
          xm' = [pc |-> "lookups", queryId |-> q, embs |-> embs,
                 pending |-> 1..Len(embs), matches |-> {},
                 failed |-> {}, rows |-> [k \in 1..Len(embs) |-> {}]]
    /\ UNCHANGED <<sources, stores>>

\* part_008:29-49 with a failed lookup failing the batch: the matches
\* gathered so far are dropped
CrossLookupFailsBatch(i) ==
    /\ UNCHANGED notCrossVars
    /\ xm.pc = "lookups"
    /\ i \in xm.pending
    /\ \/ LET data == MatchSourcesCall(xm.embs[i], xm.queryId)
          IN  xm' = [xm EXCEPT !.pending = @ \ {i},
                               !.rows[i] = {m.id : m \in data},
                               !.matches = @ \cup
                                   {[source_index |-> i, matched_source_id |-> m.id]
                                       : m \in data}]
       \/ xm' = [xm EXCEPT !.pending = @ \ {i}, !.failed = @ \cup {i}, !.matches = {}]
    /\ UNCHANGED <<sources, lookups, stores>>

\* part_008:29-49  the lookup of one embedding settles, in any order: its
\* rows are mapped to matches; an error (37-40) or a rejection (53) yields
\* none
CrossLookup(i) ==
    /\ UNCHANGED notCrossVars
    /\ xm.pc = "lookups"
    /\ i \in xm.pending
    /\ \/ LET data == MatchSourcesCall(xm.embs[i], xm.queryId)
          IN  xm' = [xm EXCEPT !.pending = @ \ {i},
                               !.rows[i] = {m.id : m \in data},
                               !.matches = @ \cup
                                   {[source_index |-> i, matched_source_id |-> m.id]
                                       : m \in data}]
       \/ xm' = [xm EXCEPT !.pending = @ \ {i}, !.failed = @ \cup {i}]
    /\ UNCHANGED <<sources, lookups, stores>>

\* part_008:52-57  the fulfilled results are concatenated and returned
CrossReturn ==
    /\ UNCHANGED notCrossVars
    /\ xm.pc = "lookups"
    /\ xm.pending = {}
    /\ xm' = [xm EXCEPT !.pc = "returned"]
    /\ UNCHANGED <<sources, lookups, stores>>

NextCross ==
    \/ CrossStore
    \/ CrossCall
    \/ \E i \in 1..MaxResults : CrossLookup(i)
    \/ CrossReturn

---------------------------------------------------------------------------
(* BridgeGapAnalyzer as its readers use it: gatherInsightData,             *)
(* insights/index.ts:85-163; loadGraphData, web/src/lib/graph/data.ts:     *)
(* 10-95; computeBridgeScore, insights/index.ts:426-443                    *)

MaxBridgeSources == 2   \* source rows stored beside the readers
MaxReads == 1           \* reader invocations in one run

\* Topic tables the readers may find: two topics of u1 and a third topic
TopicRowOf(u, c) ==
    [user_id |-> u, label |-> LabelText, num |-> c, den |-> 1, query_count |-> 1]

BridgeTopicTables ==
    {<<TopicRowOf("u1", <<1, 0>>), TopicRowOf("u1", <<1, 1>>), TopicRowOf(u, <<0, 1>>)>>
        : u \in Users}

\* <<3,1>> is at 0.316 to <<0,1>>: a bridge at 0.3 and none at 0.4
BridgeEmbeddings == {<<1, 1>>, <<3, 1>>}

\* data.ts:13, insights/index.ts:100  p_min_similarity: 0.4
BridgeMinNum == 4
BridgeMinDen == 10

\* insights/index.ts:434  p_min_similarity: 0.3
PairMinNum == 3
PairMinDen == 10

\* A similarity is kept as its square, an exact fraction <<num, den>> in
\* lowest terms; similarities are compared at positive values only.
CosSq(a, b) ==
    IF Dot(a, b) <= 0 THEN <<0, 1>>
    ELSE LET n == Dot(a, b) * Dot(a, b)
             d == Dot(a, a) * Dot(b, b)
         IN  <<n \div Gcd(n, d), d \div Gcd(n, d)>>

FracLeq(x, y) == x[1] * y[2] <= y[1] * x[2]

FracMin(x, y) == IF FracLeq(x, y) THEN x ELSE y

FracMaxOf(S) == IF S = {} THEN <<0, 1>> ELSE CHOOSE x \in S : \A y \in S : FracLeq(y, x)

Centroid(t) == topics[t].num

\* The pairs of one user's topics, lower id first
TopicPairs(userId) ==
    {p \in TopicIds \X TopicIds :
        /\ p[1] < p[2]
        /\ topics[p[1]].user_id = userId
        /\ topics[p[2]].user_id = userId}

\* A source bridges topics a and b at the minimum similarity num/den
Bridges(s, a, b, num, den) ==
    /\ CosineAtLeast(s.emb, Centroid(a), num, den)
    /\ CosineAtLeast(s.emb, Centroid(b), num, den)

\* The score of a bridge: the lower of its two similarities
BridgeScoreOf(s, a, b) == FracMin(CosSq(s.emb, Centroid(a)), CosSq(s.emb, Centroid(b)))

\* RPC semantic_bridges: one row per bridging source and topic pair
SemanticBridges(userId, num, den) ==
    {[source_id |-> s.id, topic_a_id |-> p[1], topic_b_id |-> p[2],
      bridge_score |-> BridgeScoreOf(s, p[1], p[2])]
        : <<s, p>> \in {x \in sources \X TopicPairs(userId) :
                            Bridges(x[1], x[2][1], x[2][2], num, den)}}

\* RPC topic_gaps: the pairs of the user's topics that no source bridges at
\* the qualifying minimum.  The should-be-related threshold and the minimum
\* source count are not in the sources: every pair is a candidate.
TopicGaps(userId) ==
    {[topic_a_id |-> p[1], topic_b_id |-> p[2],
      topic_similarity |-> CosSq(Centroid(p[1]), Centroid(p[2]))]
        : p \in {q \in TopicPairs(userId) :
                    ~\E s \in sources : Bridges(s, q[1], q[2], BridgeMinNum, BridgeMinDen)}}

\* RPC pair_bridge_score: the best score of a source bridging a and b
PairBridgeScore(a, b, num, den) ==
    FracMaxOf({BridgeScoreOf(s, a, b) : s \in {x \in sources : Bridges(x, a, b, num, den)}})

\* insights/index.ts:431-435 with p_topic_b_id: topicAId
ComputeBridgeScoreOneTopic(topicAId, topicBId) ==
    PairBridgeScore(topicAId, topicAId, PairMinNum, PairMinDen)

\* insights/index.ts:431-435, 442  the RPC's best_bridge_score
ComputeBridgeScore(topicAId, topicBId) ==
    PairBridgeScore(topicAId, topicBId, PairMinNum, PairMinDen)

\* data.ts:52, 83  [a, b].sort().join('::')
PairKey(a, b) == IF a <= b THEN <<a, b>> ELSE <<b, a>>

\* data.ts:48-78  one 'bridge' edge per topic pair: best score, row count
BridgeEdges(nodeIds, bridgeRows) ==
    LET kept == {b \in bridgeRows : b.topic_a_id \in nodeIds /\ b.topic_b_id \in nodeIds}
        keys == {PairKey(b.topic_a_id, b.topic_b_id) : b \in kept}
        rowsOf(k) == {b \in kept : PairKey(b.topic_a_id, b.topic_b_id) = k}
    IN  {[source |-> k[1], target |-> k[2], type |-> "bridge",
          strength |-> FracMaxOf({b.bridge_score : b \in rowsOf(k)}),
          bridgeCount |-> Cardinality(rowsOf(k))] : k \in keys}

\* data.ts:80-92  a 'gap' edge per gap row whose pair has no bridge edge
GapEdges(nodeIds, bridgeRows, gapRows) ==
    LET edgePairs == {<<e.source, e.target>> : e \in BridgeEdges(nodeIds, bridgeRows)}
    IN  {[source |-> g.topic_a_id, target |-> g.topic_b_id, type |-> "gap",
          strength |-> g.topic_similarity, bridgeCount |-> 0]
            : g \in {x \in gapRows : /\ x.topic_a_id \in nodeIds
                                     /\ x.topic_b_id \in nodeIds
                                     /\ PairKey(x.topic_a_id, x.topic_b_id) \notin edgePairs}}

IdleGather == [pc |-> "idle", userId |-> "u1", pending |-> {}, gaps |-> {}, bridges |-> {}]

IdleLoad == [pc |-> "idle", userId |-> "u1", pending |-> {}, topics |-> {}, gaps |-> {},
             bridges |-> {}, edges |-> {}]

NoScore == [pc |-> "idle", a |-> NoTopic, b |-> NoTopic, ok |-> FALSE,
            score |-> <<0, 1>>, reverse |-> <<0, 1>>]

InitBridgeVars ==
    /\ gi = IdleGather
    /\ lg = IdleLoad
    /\ bs = NoScore
    /\ reads = 0

\* part_009:96-114  a request stores a source beside the readers
BridgeStoreSource ==
    /\ UNCHANGED notBridgeVars
    /\ Cardinality(sources) < MaxBridgeSources
    /\ \E e \in BridgeEmbeddings :
          sources' = sources \cup
              {[id |-> NextSourceId, query_id |-> 1, source_type |-> "search",
                external_id |-> "null", doi |-> NullDoi, emb |-> e]}
    /\ UNCHANGED <<gi, lg, bs, reads>>

\* insights/index.ts:85-98  gatherInsightData fires its RPCs
GatherStart ==
    /\ UNCHANGED notBridgeVars
    /\ gi.pc = "idle"
    /\ reads < MaxReads
    /\ reads' = reads + 1
    /\ \E u \in Users :
          gi' = [IdleGather EXCEPT !.pc = "rpcs", !.userId = u,
                                   !.pending = {"gaps", "bridges"}]
    /\ UNCHANGED <<sources, lg, bs>>

\* insights/index.ts:99, 116, 143  topic_gaps settles; an error reads as []
GatherGaps ==
    /\ UNCHANGED notBridgeVars
    /\ gi.pc = "rpcs"
    /\ "gaps" \in gi.pending
    /\ \E rows \in {TopicGaps(gi.userId), {}} :
          gi' = [gi EXCEPT !.pending = @ \ {"gaps"}, !.gaps = rows]
    /\ UNCHANGED <<sources, lg, bs, reads>>

\* insights/index.ts:100, 117, 144  semantic_bridges settles; an error reads as []
GatherBridges ==
    /\ UNCHANGED notBridgeVars
    /\ gi.pc = "rpcs"
    /\ "bridges" \in gi.pending
    /\ \E rows \in {SemanticBridges(gi.userId, BridgeMinNum, BridgeMinDen), {}} :
          gi' = [gi EXCEPT !.pending = @ \ {"bridges"}, !.bridges = rows]
    /\ UNCHANGED <<sources, lg, bs, reads>>

\* insights/index.ts:142-162  the data is put together and returned
GatherDone ==
    /\ UNCHANGED notBridgeVars
    /\ gi.pc = "rpcs"
    /\ gi.pending = {}
    /\ gi' = [gi EXCEPT !.pc = "done"]
    /\ UNCHANGED <<sources, lg, bs, reads>>

GatherReturn ==
    /\ UNCHANGED notBridgeVars
    /\ gi.pc = "done"
    /\ gi' = IdleGather
    /\ UNCHANGED <<sources, lg, bs, reads>>

\* data.ts:10-16  loadGraphData fires its RPCs
LoadStart ==
    /\ UNCHANGED notBridgeVars
    /\ lg.pc = "idle"
    /\ reads < MaxReads
    /\ reads' = reads + 1
    /\ \E u \in Users :
          lg' = [IdleLoad EXCEPT !.pc = "rpcs", !.userId = u,
                                 !.pending = {"topics", "gaps", "bridges"}]
    /\ UNCHANGED <<sources, gi, bs>>

\* data.ts:12, 18  get_user_topics settles; an error reads as []
LoadTopics ==
    /\ UNCHANGED notBridgeVars
    /\ lg.pc = "rpcs"
    /\ "topics" \in lg.pending
    /\ \E ids \in {{t \in TopicIds : topics[t].user_id = lg.userId}, {}} :
          lg' = [lg EXCEPT !.pending = @ \ {"topics"}, !.topics = ids]
    /\ UNCHANGED <<sources, gi, bs, reads>>

\* data.ts:13, 19  semantic_bridges settles; an error reads as []
LoadBridges ==
    /\ UNCHANGED notBridgeVars
    /\ lg.pc = "rpcs"
    /\ "bridges" \in lg.pending
    /\ \E rows \in {SemanticBridges(lg.userId, BridgeMinNum, BridgeMinDen), {}} :
          lg' = [lg EXCEPT !.pending = @ \ {"bridges"}, !.bridges = rows]
    /\ UNCHANGED <<sources, gi, bs, reads>>

\* data.ts:14, 20  topic_gaps settles; an error reads as []
LoadGaps ==
    /\ UNCHANGED notBridgeVars
    /\ lg.pc = "rpcs"
    /\ "gaps" \in lg.pending
    /\ \E rows \in {TopicGaps(lg.userId), {}} :
          lg' = [lg EXCEPT !.pending = @ \ {"gaps"}, !.gaps = rows]
    /\ UNCHANGED <<sources, gi, bs, reads>>

\* data.ts:46-94  the edges are built and the graph returned
LoadBuild ==
    /\ UNCHANGED notBridgeVars
    /\ lg.pc = "rpcs"
    /\ lg.pending = {}
    /\ lg' = [lg EXCEPT !.pc = "done",
                        !.edges = BridgeEdges(lg.topics, lg.bridges)
                                      \cup GapEdges(lg.topics, lg.bridges, lg.gaps)]
    /\ UNCHANGED <<sources, gi, bs, reads>>

LoadReturn ==
    /\ UNCHANGED notBridgeVars
    /\ lg.pc = "done"
    /\ lg' = IdleLoad
    /\ UNCHANGED <<sources, gi, bs, reads>>

\* insights/index.ts:426-443  computeBridgeScore(a, b): the RPC's answer, or
\* 0 on an error; reverse records the RPC's answer for (b, a) on the same
\* tables
ScoreCall ==
    /\ UNCHANGED notBridgeVars
    /\ bs.pc = "idle"
    /\ reads < MaxReads
    /\ reads' = reads + 1
    /\ \E a \in TopicIds, b \in TopicIds, ok \in BOOLEAN :
          bs' = [pc |-> "done", a |-> a, b |-> b, ok |-> ok,
                 score |-> IF ok THEN ComputeBridgeScore(a, b) ELSE <<0, 1>>,
                 reverse |-> PairBridgeScore(b, a, PairMinNum, PairMinDen)]
    /\ UNCHANGED <<sources, gi, lg>>

ScoreReturn ==
    /\ UNCHANGED notBridgeVars
    /\ bs.pc = "done"
    /\ bs' = NoScore
    /\ UNCHANGED <<sources, gi, lg, reads>>

NextBridges ==
    \/ BridgeStoreSource
    \/ GatherStart
    \/ GatherGaps
    \/ GatherBridges
    \/ GatherDone
    \/ GatherReturn
    \/ LoadStart
    \/ LoadTopics
    \/ LoadBridges
    \/ LoadGaps
    \/ LoadBuild
    \/ LoadReturn

\* computeBridgeScore beside requests that store sources
NextScore ==
    \/ BridgeStoreSource
    \/ ScoreCall
    \/ ScoreReturn

---------------------------------------------------------------------------
(* withRetry, resilientFetch and isRetryable, _shared/exa.ts:70-144       *)

MaxRetryCalls == 2   \* withRetry calls in one run

\* exa.ts:48, embeddings.ts:51  maxAttempts of the callers
AttemptCaps == {2, 3}

\* What one fetch does: it throws a TypeError, or a response comes back
NetworkError == 0
FetchOutcomes == {NetworkError, 200, 400, 404, 429, 500, 503}

NoError == [name |-> "none", statusCode |-> 0, retryable |-> FALSE, marked |-> FALSE]

\* exa.ts:120-136  resilientFetch: the response when resp.ok, else the error
\* thrown; a TypeError of fetch passes through unmarked
ResilientFetch(fetched) ==
    IF fetched = NetworkError
    THEN [ok |-> FALSE,
          err |-> [name |-> "TypeError", statusCode |-> 0, retryable |-> FALSE, marked |-> FALSE]]
    ELSE IF fetched >= 200 /\ fetched <= 299
    THEN [ok |-> TRUE, err |-> NoError]
    ELSE [ok |-> FALSE,
          err |-> [name |-> "Error", statusCode |-> fetched,
                   retryable |-> fetched >= 500, marked |-> TRUE]]

\* exa.ts:138-144  isRetryable
isRetryable(err) ==
    IF err.name = "TypeError" THEN TRUE
    ELSE IF err.marked THEN err.retryable = TRUE
    ELSE FALSE

\* baseDelayMs and maxDelayMs of a call, in units of 500 ms: the defaults of
\* exa.ts:84-85, and a pair whose cap is reached at the second delay
DelayOptions == {[baseDelayMs |-> 1, maxDelayMs |-> 16], [baseDelayMs |-> 2, maxDelayMs |-> 3]}

RECURSIVE Pow2(_)
Pow2(k) == IF k <= 0 THEN 1 ELSE 2 * Pow2(k - 1)

Min(a, b) == IF a <= b THEN a ELSE b

\* exa.ts:108-109  Math.random() * Math.min(expDelay, maxDelayMs), whole units
JitteredDelays(baseDelayMs, maxDelayMs, attempt) ==
    LET expDelay == baseDelayMs * Pow2(attempt - 1)
    IN  0..(Min(expDelay, maxDelayMs) - 1)

IdleRetry ==
    [pc |-> "idle", attempt |-> 0, maxAttempts |-> 0, outcome |-> 200, lastError |-> NoError,
     baseDelayMs |-> 0, maxDelayMs |-> 0, delay |-> 0,
     log |-> <<>>]   \* history: what each attempt's fetch did

InitRetryVars ==
    /\ rt = IdleRetry
    /\ rtCalls = 0

\* exa.ts:89-99  withRetry(() => resilientFetch(...), { maxAttempts, shouldRetry: isRetryable })
RetryStart ==
    /\ UNCHANGED notRetryVars
    /\ rt.pc = "idle"
    /\ rtCalls < MaxRetryCalls
    /\ rtCalls' = rtCalls + 1
    /\ \E cap \in AttemptCaps, opts \in DelayOptions :
          rt' = [IdleRetry EXCEPT !.pc = "attempt", !.attempt = 1, !.maxAttempts = cap,
                                  !.baseDelayMs = opts.baseDelayMs,
                                  !.maxDelayMs = opts.maxDelayMs]

\* exa.ts:100-110 without the attempt === maxAttempts test of line 105
RetryAttemptUncapped ==
    /\ UNCHANGED notRetryVars
    /\ rt.pc = "attempt"
    /\ \E fetched \in FetchOutcomes :
          LET r == ResilientFetch(fetched)
              again == ~r.ok /\ isRetryable(r.err)
          IN  \E delay \in IF again
                           THEN JitteredDelays(rt.baseDelayMs, rt.maxDelayMs, rt.attempt)
                           ELSE {0} :
                rt' = [rt EXCEPT
                          !.outcome = fetched,
                          !.log = Append(rt.log, fetched),
                          !.lastError = r.err,
                          !.delay = delay,
                          !.pc = IF r.ok THEN "returned"
                                 ELSE IF again THEN "backoff" ELSE "thrown"]
    /\ UNCHANGED rtCalls

\* exa.ts:100-110  one attempt: fn() returns, or its error is caught and is
\* thrown on when no attempt remains or shouldRetry says no; otherwise the
\* jittered delay is drawn
RetryAttempt ==
    /\ UNCHANGED notRetryVars
    /\ rt.pc = "attempt"
    /\ \E fetched \in FetchOutcomes :
          LET r == ResilientFetch(fetched)
              again == ~r.ok /\ ~(rt.attempt = rt.maxAttempts \/ ~isRetryable(r.err))
          IN  \E delay \in IF again
                           THEN JitteredDelays(rt.baseDelayMs, rt.maxDelayMs, rt.attempt)
                           ELSE {0} :
                rt' = [rt EXCEPT
                          !.outcome = fetched,
                          !.log = Append(rt.log, fetched),
                          !.lastError = r.err,
                          !.delay = delay,
                          !.pc = IF r.ok THEN "returned"
                                 ELSE IF again THEN "backoff" ELSE "thrown"]
    /\ UNCHANGED rtCalls

\* exa.ts:107-110  the jittered delay passes and the next attempt starts
RetryBackoff ==
    /\ UNCHANGED notRetryVars
    /\ rt.pc = "backoff"
    /\ rt' = [rt EXCEPT !.pc = "attempt", !.attempt = rt.attempt + 1]
    /\ UNCHANGED rtCalls

\* exa.ts:102, 105  the caller has the response or the error
RetrySettled ==
    /\ UNCHANGED notRetryVars
    /\ rt.pc \in {"returned", "thrown"}
    /\ rt' = IdleRetry
    /\ UNCHANGED rtCalls

NextRetry ==
    \/ RetryStart
    \/ RetryAttempt
    \/ RetryBackoff
    \/ RetrySettled

---------------------------------------------------------------------------
(* reconstructAbstract of the OpenAlex harvester, part_005:243-263.  A     *)
(* string is the sequence of its characters.                               *)

MaxPos == 2       \* highest position an inverted index lists
MaxEntries == 2   \* words of one inverted index

\* Keys an inverted index may carry: words, the empty string, a word with a
\* leading blank
IndexWords == {<<"a">>, <<"b">>, <<>>, <<" ", "a">>}

PositionLists == SUBSET (0..MaxPos) \ {{}}

\* Object.entries(invertedIndex): the entries in insertion order, one per key
EntryLists ==
    {es \in UNION {[1..n -> [word : IndexWords, positions : PositionLists]]
                      : n \in 0..MaxEntries} :
        \A i \in DOMAIN es, j \in DOMAIN es : es[i].word = es[j].word => i = j}

\* What the harvester may pass: null, or an index
AbstractInputs ==
    {[isNull |-> TRUE, entries |-> <<>>]} \cup
    {[isNull |-> FALSE, entries |-> es] : es \in EntryLists}

\* Array.prototype.join(" ")
RECURSIVE JoinFrom(_, _)
JoinFrom(ws, i) ==
    IF i > Len(ws) THEN <<>>
    ELSE IF i = Len(ws) THEN ws[i]
    ELSE ws[i] \o <<" ">> \o JoinFrom(ws, i + 1)

Join(ws) == JoinFrom(ws, 1)

\* String.prototype.trim()
RECURSIVE Trim(_)
Trim(str) ==
    IF str = <<>> THEN str
    ELSE IF Head(str) = " " THEN Trim(Tail(str))
    ELSE IF str[Len(str)] = " " THEN Trim(SubSeq(str, 1, Len(str) - 1))
    ELSE str

\* part_005:248-253
MaxPosOf(entries) ==
    LET listed == UNION {entries[i].positions : i \in DOMAIN entries}
    IN  IF listed = {} THEN 0 ELSE CHOOSE p \in listed : \A q \in listed : q <= p

\* part_005:255-260  words[pos] = word, a later entry overwriting an earlier
WordAt(entries, pos) ==
    LET listing == {i \in DOMAIN entries : pos \in entries[i].positions}
    IN  IF listing = {} THEN <<>>
        ELSE entries[CHOOSE i \in listing : \A j \in listing : j <= i].word

\* part_005:255 as new Array(maxPos): the last position is left out
ReconstructAbstractShort(invertedIndex) ==
    IF invertedIndex.isNull THEN <<>>
    ELSE LET maxPos == MaxPosOf(invertedIndex.entries)
             words == [k \in 1..maxPos |-> WordAt(invertedIndex.entries, k - 1)]
         IN  Trim(Join(words))

\* part_005:243-263  reconstructAbstract
ReconstructAbstract(invertedIndex) ==
    IF invertedIndex.isNull THEN <<>>
    ELSE LET maxPos == MaxPosOf(invertedIndex.entries)
             words == [k \in 1..(maxPos + 1) |-> WordAt(invertedIndex.entries, k - 1)]
         IN  Trim(Join(words))

InitAbstractVars ==
    ra = [pc |-> "idle", index |-> [isNull |-> TRUE, entries |-> <<>>], result |-> <<>>]

\* part_005:243  the harvester reconstructs one work's abstract
ReconstructCall ==
    /\ UNCHANGED notAbstractVars
    /\ ra.pc = "idle"
    /\ \E i \in AbstractInputs :
          ra' = [pc |-> "done", index |-> i, result |-> ReconstructAbstract(i)]

ReconstructReturn ==
    /\ UNCHANGED notAbstractVars
    /\ ra.pc = "done"
    /\ ra' = [pc |-> "idle", index |-> [isNull |-> TRUE, entries |-> <<>>], result |-> <<>>]

NextAbstract ==
    \/ ReconstructCall
    \/ ReconstructReturn

---------------------------------------------------------------------------
(* The analytics buffer of the web client, part_000:22-94 *)

MaxTracks == 10     \* events track accepts in one run
MaxInFlight == 2    \* insert batches in flight at once
MaxFailures == 1    \* failed inserts in one run

\* part_000:29  flush if buffer hits this size
FLUSH_SIZE == 10

\* An event is named by its number among the events track accepted
EventIds == 1..MaxTracks

\* part_000:23-26 at module load, and an empty events table (the number of
\* rows of each event); accepted and failures are history
InitAnalyticsVars ==
    an = [ready |-> FALSE, buffer |-> <<>>, flushTimer |-> FALSE, inflight |-> {},
          events |-> [e \in EventIds |-> 0], accepted |-> 0, failures |-> 0]

\* part_000:74-82  flush up to its await: clear the timer, and unless the
\* buffer is empty take all of it as the batch of an insert
FlushCall(a) ==
    LET cleared == [a EXCEPT !.flushTimer = FALSE]
    IN  IF Len(a.buffer) = 0 \/ ~a.ready
        THEN cleared
        ELSE [cleared EXCEPT !.buffer = <<>>, !.inflight = @ \cup {a.buffer}]

\* The batches in flight after a step stay within the bound
InFlightBounded(a) == Cardinality(a.inflight) <= MaxInFlight

\* part_000:40-51  initAnalytics
InitAnalytics ==
    /\ UNCHANGED notAnalyticsVars
    /\ ~an.ready
    /\ an' = [an EXCEPT !.ready = TRUE]

\* part_000:54-72  track: push the event, then flush at FLUSH_SIZE or arm
\* the timer; before initAnalytics it returns at line 55
Track ==
    /\ UNCHANGED notAnalyticsVars
    /\ an.accepted < MaxTracks
    /\ LET e == an.accepted + 1
           pushed == [an EXCEPT !.buffer = Append(@, e), !.accepted = e]
       IN  an' = IF ~an.ready THEN an
                 ELSE IF Len(pushed.buffer) >= FLUSH_SIZE THEN FlushCall(pushed)
                 ELSE [pushed EXCEPT !.flushTimer = TRUE]
    /\ InFlightBounded(an')

\* part_000:70  the timer set by track fires
TimerFlush ==
    /\ UNCHANGED notAnalyticsVars
    /\ an.flushTimer
    /\ an' = FlushCall(an)
    /\ InFlightBounded(an')

\* part_000:45-49  the page is hidden: the listeners call flush
PageHiddenFlush ==
    /\ UNCHANGED notAnalyticsVars
    /\ an.ready
    /\ an' = FlushCall(an)
    /\ an' # an
    /\ InFlightBounded(an')

\* part_000:85-86  the insert of a batch returns without error
FlushInserted ==
    /\ UNCHANGED notAnalyticsVars
    /\ \E batch \in an.inflight :
          an' = [an EXCEPT
                   !.inflight = @ \ {batch},
                   !.events = [e \in EventIds |->
                                 IF \E k \in DOMAIN batch : batch[k] = e
                                 THEN @[e] + 1 ELSE @[e]]]

\* part_000:84-93 without the unshift of lines 88 and 92
FlushFailedDropsBatch ==
    /\ UNCHANGED notAnalyticsVars
    /\ an.failures < MaxFailures
    /\ \E batch \in an.inflight :
          an' = [an EXCEPT !.inflight = @ \ {batch}, !.failures = @ + 1]

\* part_000:86-93  the insert returns an error or throws: the batch goes
\* back in front of what was tracked since
FlushFailed ==
    /\ UNCHANGED notAnalyticsVars
    /\ an.failures < MaxFailures
    /\ \E batch \in an.inflight :
          an' = [an EXCEPT !.inflight = @ \ {batch}, !.buffer = batch \o @,
                           !.failures = @ + 1]

NextAnalytics ==
    \/ InitAnalytics
    \/ Track
    \/ TimerFlush
    \/ PageHiddenFlush
    \/ FlushInserted
    \/ FlushFailed

---------------------------------------------------------------------------
(* Properties of ingestion and of the CrossQueryMatcher *)

\* C9: idempotent re-ingestion: no step of a harvest batch changes or removes
\* a stored source row, and after every step there is at most one row per
\* (source_type, external_id), so a work whose key is stored adds no row.
IdempotentReingestion ==
    [][/\ \A s \in sources : s \in sources'
       /\ \A s, t \in sources' : SameKey(s, t) => s = t]_vars

\* C9 witness: a batch came to its upsert with a work whose key was stored by
\* then, and returned.
IdempotentReingestionWitness ==
    \E j \in Jobs : ing[j].pc = "returned" /\ ing[j].conflicted # {}

\* C10: cross-query exclusion: no match of findRelatedSources(embeddings, Q)
\* names a source that belongs to Q.
CrossQueryExclusion ==
    \A m \in xm.matches : \A s \in sources :
        s.id = m.matched_source_id => s.query_id # xm.queryId

\* C10 witness: matches were returned while a source of Q itself is within
\* the threshold of the embedding that was looked up.
CrossQueryExclusionWitness ==
    /\ xm.pc = "returned"
    /\ \E m \in xm.matches, s \in sources :
          /\ s.query_id = xm.queryId
          /\ CosineAtLeast(s.emb, xm.embs[m.source_index],
                           CrossThresholdNum, CrossThresholdDen)

---------------------------------------------------------------------------
(* Properties of the DedupEngine *)

EndpointColumns == {"source_a_id", "source_b_id"}

\* C3: when mergePair returns, every connection that referenced the loser
\* before the call references the winner at the same endpoint, no connection
\* references the loser, and the loser's row is gone.
MergeSafety ==
    dd.pc = "merged" =>
        /\ \A c \in snap.connections : \A col \in EndpointColumns :
              c[col] = dd.loser =>
                  \E c2 \in connections : c2.id = c.id /\ c2[col] = dd.winner
        /\ \A c \in connections : dd.loser \notin Refs(c)
        /\ dd.loser \notin SourceIds

\* C4: no connection ever references a deleted source, and a source is
\* deleted only when no connection references it any more.
RepointBeforeDelete ==
    [][/\ \A c \in connections' : Refs(c) \cap deleted' = {}
       /\ \A id \in deleted' \ deleted : \A c \in connections : id \notin Refs(c)]_vars

\* What a reader sees of a merge: the loser's row, the winner's doi, and the
\* connections that referenced the loser when mergePair was called
MergeView ==
    [present |-> dd.loser \in SourceIds,
     winnerDoi |-> IF dd.winner \in SourceIds THEN SourceRow(dd.winner).doi ELSE NullDoi,
     conns |-> {c \in connections :
                  \E o \in snap.connections : o.id = c.id /\ dd.loser \in Refs(o)}]

PreMergeView ==
    [present |-> TRUE,
     winnerDoi |-> snap.winnerDoi,
     conns |-> {c \in snap.connections : dd.loser \in Refs(c)}]

PostMergeView ==
    [present |-> FALSE,
     winnerDoi |-> IF snap.winnerDoi = NullDoi THEN snap.loserDoi ELSE snap.winnerDoi,
     conns |-> {[c EXCEPT
                   !.source_a_id = IF @ = dd.loser THEN dd.winner ELSE @,
                   !.source_b_id = IF @ = dd.loser THEN dd.winner ELSE @]
                  : c \in {c \in snap.connections : dd.loser \in Refs(c)}}]

\* C5: while mergePair runs, a reader sees the state before the merge or the
\* state after it, never a mixture.
MergeAtomic ==
    MergeRunning => MergeView \in {PreMergeView, PostMergeView}

---------------------------------------------------------------------------
(* Properties of the ResearchScheduler *)

DirectionIds == 1..Len(directions)

\* C6: a research direction is created 'searching', its status changes only
\* from 'searching' to completed, exhausted or failed, and a terminal status
\* is never changed again.
DirectionLifecycle ==
    [][/\ Len(directions') >= Len(directions)
       /\ \A id \in 1..Len(directions') :
             IF id > Len(directions)
             THEN directions'[id].status = "searching"
             ELSE directions'[id].status # directions[id].status =>
                      /\ directions[id].status = "searching"
                      /\ directions'[id].status \in Terminal]_vars

\* C6 witness: a cycle has ended with a completed row and a row of another
\* terminal status behind it
DirectionLifecycleWitness ==
    /\ sc.pc = "responded"
    /\ cycles = MaxCycles
    /\ \E id \in DirectionIds : directions[id].status = "completed"
    /\ \E id \in DirectionIds : directions[id].status \in Terminal \ {"completed"}

\* C7: at the end of a cycle every direction has been processed; one whose
\* processing threw is persisted 'failed' with a non-empty error text, and
\* every other one is in a terminal status.
FailureIsolation ==
    sc.pc = "refresh" =>
        /\ Len(outcome) = sc.n
        /\ \A k \in 1..Len(outcome) :
              /\ outcome[k].row # NoRow
              /\ IF outcome[k].threw
                 THEN /\ directions[outcome[k].row].status = "failed"
                      /\ directions[outcome[k].row].error # ""
                 ELSE directions[outcome[k].row].status \in Terminal

---------------------------------------------------------------------------
(* Specifications *)

InitTopics ==
    /\ InitTopicVars
    /\ InitMergeVars({}, "none")
    /\ InitSchedVars
    /\ InitSearchVars
    /\ InitIngestVars
    /\ InitCrossVars
    /\ InitBridgeVars
    /\ InitRetryVars
    /\ InitAbstractVars
    /\ InitAnalyticsVars

\* Search requests, one after the other
SpecSearch == InitTopics /\ [][NextSearch]_vars

InitMerge ==
    /\ InitTopicVars
    /\ InitSchedVars
    /\ InitSearchVars
    /\ InitIngestVars
    /\ InitCrossVars
    /\ InitBridgeVars
    /\ InitRetryVars
    /\ InitAbstractVars
    /\ InitAnalyticsVars
    /\ \E rows \in SUBSET Harvested, policy \in FkPolicies : InitMergeVars(rows, policy)

\* A dedup sweep running beside a search request
SpecMerge == InitMerge /\ [][NextMerge]_vars

\* reconstructAbstract on the inverted indexes of harvested works
SpecAbstract == InitTopics /\ [][NextAbstract]_vars

\* withRetry when every invocation of fn settles and every delay elapses
SpecRetryFair ==
    InitTopics /\ [][NextRetry]_vars /\ WF_vars(RetryAttempt) /\ WF_vars(RetryBackoff)

\* External-service calls made through withRetry
SpecRetry == InitTopics /\ [][NextRetry]_vars

\* The readers of bridges and gaps beside requests that store sources
InitBridges ==
    /\ topics \in BridgeTopicTables
    /\ queries = <<>>
    /\ cl = [r \in Slots |-> IdleCall]
    /\ folded = [t \in 1..3 |-> <<topics[t].num>>]
    /\ InitMergeVars({}, "none")
    /\ InitSchedVars
    /\ InitSearchVars
    /\ InitIngestVars
    /\ InitCrossVars
    /\ InitBridgeVars
    /\ InitRetryVars
    /\ InitAbstractVars
    /\ InitAnalyticsVars

SpecBridges == InitBridges /\ [][NextBridges]_vars

SpecScore == InitBridges /\ [][NextScore]_vars

\* The analytics module of one page of the web client
SpecAnalytics == InitTopics /\ [][NextAnalytics]_vars

\* Search requests storing sources and connections, one after the other
SpecPipe == InitTopics /\ [][NextPipe]_vars

\* Dedup sweeps over a corpus stored before
InitSweep ==
    /\ InitTopicVars
    /\ InitSchedVars
    /\ InitSearchVars
    /\ InitIngestVars
    /\ InitCrossVars
    /\ InitBridgeVars
    /\ InitRetryVars
    /\ InitAbstractVars
    /\ InitAnalyticsVars
    /\ \E rows \in SUBSET SweepCorpus : InitMergeVars(rows, "none")

SpecSweep == InitSweep /\ [][NextSweep]_vars

\* Harvest batches running beside each other, over a corpus harvested before
InitIngest == InitMerge /\ fk = "none"

SpecIngest == InitIngest /\ [][NextIngest]_vars

\* Matcher calls beside requests that store their sources
SpecCross == InitIngest /\ [][NextCross]_vars

InitSched == InitTopics

\* Scheduler cycles, one after the other
SpecSched == InitSched /\ [][NextSched]_vars

\* Classify calls of concurrent requests
SpecTopics == InitTopics /\ [][NextTopics]_vars

\* Classify calls one after the other
SpecTopicsSeq == InitTopics /\ [][NextTopicsSeq]_vars

---------------------------------------------------------------------------
(* Properties of the TopicClassifier *)

RECURSIVE SumSeq(_, _, _)
SumSeq(es, i, k) == IF k > Len(es) THEN 0 ELSE es[k][i] + SumSeq(es, i, k + 1)

\* The embeddings of the queries assigned to topic t, in query order
RECURSIVE MemberEmbs(_, _)
MemberEmbs(t, q) ==
    IF q > Len(queries) THEN <<>>
    ELSE (IF queries[q].topic_id = t THEN <<queries[q].emb>> ELSE <<>>)
             \o MemberEmbs(t, q + 1)

\* centroid * count = sum of es, component-wise, and count = Len(es)
IsMeanOf(t, es) ==
    /\ topics[t].query_count = Len(es)
    /\ \A i \in Dims(topics[t].num) :
          topics[t].num[i] * Len(es) = topics[t].den * SumSeq(es, i, 1)

Quiescent == \A r \in Slots : cl[r].pc = "idle"

\* C1: when no classify call is in progress, every topic's member count is
\* the number of queries assigned to it and its centroid is the mean of
\* those queries' embeddings.
CentroidInvariant ==
    Quiescent => \A t \in TopicIds : IsMeanOf(t, MemberEmbs(t, 1))

\* C2: no centroid update is lost: every topic's count and centroid account
\* for every embedding a classify call has written into it, so two calls
\* that both matched a topic at count n leave it at n + 2 with both folded in.
NoLostCentroidUpdate ==
    \A t \in TopicIds : IsMeanOf(t, folded[t])

\* C11: threshold monotonicity: with the user's topics fixed and the lookup
\* succeeding, a classify call returns isNew = FALSE exactly when some topic
\* of the user was at similarity >= 0.71 to the query embedding, so a higher
\* similarity never turns isNew from FALSE to TRUE.
ThresholdMonotonicity ==
    \A r \in Slots :
        (cl[r].pc = "done" /\ cl[r].lookup = "ok") =>
            (cl[r].isNew = FALSE <=> cl[r].hadMatch)

\* C11 witness: a call returned isNew = TRUE although the user has a topic
\* at positive similarity, just under the threshold.
ThresholdMonotonicityWitness ==
    \E r \in Slots :
        /\ cl[r].pc = "done" /\ cl[r].lookup = "ok" /\ cl[r].isNew
        /\ \E t \in 1..Len(cl[r].before) :
              /\ cl[r].before[t].user_id = cl[r].userId
              /\ Dot(cl[r].before[t].num, cl[r].emb) > 0

\* The topic row t is the running mean of row b and embedding e
IsGrowthOf(t, b, e) ==
    /\ t.query_count = b.query_count + 1
    /\ \A i \in Dims(e) :
          t.num[i] * b.den * (b.query_count + 1)
              = t.den * (b.num[i] * b.query_count + e[i] * b.den)

\* C12: a classify call that found no match (no topic of the user within the
\* threshold, or a lookup error) ends by returning isNew = TRUE, with exactly
\* one topic added, of centroid equal to the query embedding and count 1, the
\* query assigned to it and every topic stored before unchanged.
NewTopicCreation ==
    \A r \in Slots :
        (/\ cl[r].pc \in {"done", "threw"}
         /\ (cl[r].lookup = "error" \/ (cl[r].lookup = "ok" /\ ~cl[r].hadMatch))) =>
            /\ cl[r].pc = "done"
            /\ cl[r].isNew
            /\ Len(topics) = Len(cl[r].before) + 1
            /\ \A t \in 1..Len(cl[r].before) : topics[t] = cl[r].before[t]
            /\ topics[Len(topics)].num = cl[r].emb
            /\ topics[Len(topics)].den = 1
            /\ topics[Len(topics)].query_count = 1
            /\ topics[Len(topics)].user_id = cl[r].userId
            /\ queries[cl[r].queryId].topic_id = Len(topics)

\* C13: a classify call that returns isNew = FALSE for topic T, which had
\* centroid C and count n before the call, leaves T with centroid
\* (C*n + E)/(n+1) and count n+1, and the query assigned to T.
TopicGrowthStep ==
    \A r \in Slots :
        (cl[r].pc = "done" /\ ~cl[r].isNew) =>
            /\ IsGrowthOf(topics[cl[r].topic], cl[r].before[cl[r].topic], cl[r].emb)
            /\ queries[cl[r].queryId].topic_id = cl[r].topic

\* Origin type x has priority over origin type y: arxiv > openalex > search
Outranks(x, y) ==
    <<x, y>> \in {<<"arxiv", "openalex">>, <<"arxiv", "search">>, <<"openalex", "search">>}

\* C14: merge winner policy: while mergePair(A, B) runs, its winner is the
\* source whose origin type has the higher priority, the first argument A
\* when the types are the same, and its loser is the other source.
MergeWinnerPolicy ==
    MergeRunning =>
        LET pair == dd.duplicates[dd.i]
        IN  /\ Outranks(pair.source_a_type, pair.source_b_type) =>
                   dd.winner = pair.source_a_id
            /\ Outranks(pair.source_b_type, pair.source_a_type) =>
                   dd.winner = pair.source_b_id
            /\ pair.source_a_type = pair.source_b_type => dd.winner = pair.source_a_id
            /\ {dd.winner, dd.loser} = {pair.source_a_id, pair.source_b_id}
            /\ dd.winner # dd.loser

\* C14 witness: mergePair runs on a pair whose second source outranks the
\* first, after a merge of two sources of one type in the same sweep.
MergeWinnerPolicyWitness ==
    /\ MergeRunning
    /\ dd.i > 1
    /\ dd.duplicates[1].source_a_type = dd.duplicates[1].source_b_type
    /\ Outranks(dd.duplicates[dd.i].source_b_type, dd.duplicates[dd.i].source_a_type)

\* C15: no double merge in a sweep: mergePair never runs on a pair that
\* names a deleted source, and the delete of a merge always removes a row
\* that was still stored, so no source is deleted twice.
NoDoubleMerge ==
    [][/\ MergeRunning' =>
             {dd'.duplicates[dd'.i].source_a_id, dd'.duplicates[dd'.i].source_b_id}
                 \cap deleted' = {}
       /\ (dd.pc = "delete" /\ dd'.pc = "merged") => dd.loser \in SourceIds]_vars

\* C15 witness: a sweep has ended in which a source was merged away and a
\* later pair was skipped.
NoDoubleMergeWitness ==
    /\ dd.pc = "responded"
    /\ dd.response = "summary"
    /\ dd.merged >= 1
    /\ dd.mergedIds \cap deleted # {}
    /\ Len(dd.duplicates) > dd.merged + dd.failed

\* The unordered topic pair of a row or an edge
PairOf(a, b) == {a, b}

\* C16: gap/bridge disjointness: what gatherInsightData returns names no
\* topic pair both as a gap and as bridged at the qualifying minimum, and
\* the graph loadGraphData returns has no topic pair with both a 'bridge'
\* edge and a 'gap' edge.
GapBridgeDisjoint ==
    /\ gi.pc = "done" =>
           \A g \in gi.gaps, b \in gi.bridges :
               PairOf(g.topic_a_id, g.topic_b_id) # PairOf(b.topic_a_id, b.topic_b_id)
    /\ lg.pc = "done" =>
           \A e \in lg.edges, f \in lg.edges :
               (e.type = "bridge" /\ f.type = "gap") =>
                   PairOf(e.source, e.target) # PairOf(f.source, f.target)

\* Minimum similarities a caller may ask for
MinSimilarities == {<<3, 10>>, <<4, 10>>, <<8, 10>>}

NamedRetryable(fetched) == fetched = NetworkError \/ fetched >= 500 \/ fetched = 429

\* C18: retry classification: a failed attempt of a call made through
\* withRetry/resilientFetch is retried, while attempts remain, exactly when
\* the failure is a network-level error, a 5xx or a 429; any other 4xx is
\* never retried.
RetryClassification ==
    /\ \A i \in 1..(Len(rt.log) - 1) : NamedRetryable(rt.log[i])
    /\ rt.pc = "backoff" => NamedRetryable(rt.outcome)
    /\ (rt.pc = "thrown" /\ rt.attempt < rt.maxAttempts) => ~NamedRetryable(rt.outcome)

\* C19: an analysis failure always fails the request: once analyzeConnections
\* has rejected, the handler never reaches its store step, answers with an
\* error when it answers, and no connections row and no syntheses row is
\* written for the query, whatever the classifier and the matcher did.
AnalysisFailureFailsRequest ==
    rq.analysis = "rejected" =>
        /\ rq.pc # "store"
        /\ rq.response # "ok"
        /\ rq.pc = "responded" => rq.response = "error"
        /\ ~rq.connStored
        /\ ~rq.synthStored

\* C19 witness: the classifier returned and the matcher fulfilled, the
\* analysis rejected, and the request answered with the analysis error.
AnalysisFailureFailsRequestWitness ==
    /\ rq.analysis = "rejected"
    /\ cl[Handler].pc = "done"
    /\ rq.cross = "fulfilled"
    /\ rq.pc = "responded"
    /\ rq.response = "error"
    /\ rq.cause = "analysis"

\* The matches findRelatedSources holds for source index i
MatchesOf(i) == {m \in xm.matches : m.source_index = i}

\* C20: cross-query partial failure: a failed lookup for source index i
\* contributes no match for i, the call returns all the same, and every
\* other index has exactly the matches its own lookup returned.
PartialFailure ==
    /\ \A i \in DOMAIN xm.embs :
           i \notin xm.pending =>
               MatchesOf(i) = IF i \in xm.failed THEN {}
                              ELSE {[source_index |-> i, matched_source_id |-> id]
                                       : id \in xm.rows[i]}
    /\ \A m \in xm.matches : m.source_index \in DOMAIN xm.embs
    /\ (xm.pc = "lookups" /\ xm.pending = {}) => ENABLED CrossReturn

\* C20 witness: the call returned after one lookup failed and another
\* returned rows, with that other index's matches in the result.
PartialFailureWitness ==
    /\ xm.pc = "returned"
    /\ \E i \in xm.failed, j \in DOMAIN xm.embs :
           /\ j \notin xm.failed
           /\ xm.rows[j] # {}
           /\ MatchesOf(j) # {}

\* C21: a dry run leaves state unchanged: no step of a sweep invoked with
\* dry_run = true deletes or updates a source row or re-points a connection
\* row, and its response carries the candidate pairs.
DryRunLeavesStateUnchanged ==
    [][ /\ (dd.dryRun \/ dd'.dryRun) =>
              /\ sources' = sources
              /\ connections' = connections
              /\ deleted' = deleted
        /\ (dd'.dryRun /\ dd'.pc # "idle") =>
              /\ dd'.pc = "responded"
              /\ dd'.response = "dry_run" ]_vars

\* C21 witness: a dry run has answered with a candidate pair of stored rows
DryRunLeavesStateUnchangedWitness ==
    /\ dd.dryRun
    /\ dd.response = "dry_run"
    /\ Len(dd.duplicates) > 0
    /\ \A i \in 1..Len(dd.duplicates) :
           {dd.duplicates[i].source_a_id, dd.duplicates[i].source_b_id} \subseteq SourceIds

\* C22: scheduler outcome: a search with zero results ends the direction
\* 'exhausted' with sources_found = 0 and processDirection returns at once;
\* otherwise a direction whose processing succeeds ends 'completed' with
\* sources_found the number of search results and bridge_score_after the
\* pair's bridge score on the tables after the new sources were stored.
SchedulerOutcome ==
    /\ sc.pc = "exhausted" => sc.found = 0
    /\ (sc.pc = "returned" /\ sc.found = 0) =>
           /\ directions[sc.row].status = "exhausted"
           /\ directions[sc.row].sources_found = 0
    /\ sc.pc \in {"embed", "storeSources", "parallel", "storeConns",
                   "storeSynthesis", "bridgeScore", "complete"} => sc.found > 0
    /\ (sc.pc = "returned" /\ sc.found > 0) =>
           /\ directions[sc.row].status = "completed"
           /\ directions[sc.row].sources_found = sc.found
           /\ directions[sc.row].bridge_score_after = sc.fresh

\* C23: cross-reference uniqueness: in every state, also inside a batch
\* upsert and between the steps of mergePair, at most one source row carries
\* any given non-null DOI.
DoiUnique ==
    \A s \in sources, t \in sources :
        (s.doi # NullDoi /\ s.doi = t.doi) => s.id = t.id

\* C24: DOI backfill on merge: when mergePair has returned, a winner that
\* had no DOI carries the DOI the loser had, and a winner that had a DOI
\* still has that DOI.
DoiBackfill ==
    (dd.pc = "merged" /\ dd.winner \in SourceIds) =>
        /\ (snap.loserDoi # NullDoi /\ snap.winnerDoi = NullDoi) =>
               SourceRow(dd.winner).doi = snap.loserDoi
        /\ snap.winnerDoi # NullDoi => SourceRow(dd.winner).doi = snap.winnerDoi

\* The rows of research_directions in 'searching'
Searching == {r \in DOMAIN directions : directions[r].status = "searching"}

ReportConsistency ==
    \A k \in DOMAIN outcome \cap DOMAIN sc.results :
        outcome[k].row # NoRow =>
            /\ directions[outcome[k].row].status \in Terminal
            /\ sc.results[k] = directions[outcome[k].row].status

\* The position lists of an index cover 0..n-1 exactly once
Covers(entries, n) ==
    /\ UNION {entries[i].positions : i \in DOMAIN entries} = 0..(n - 1)
    /\ \A i \in DOMAIN entries, j \in DOMAIN entries :
           i # j => entries[i].positions \cap entries[j].positions = {}

\* The n words of a covering index in position order
TextOf(entries, n) ==
    [k \in 1..n |->
        entries[CHOOSE i \in DOMAIN entries : (k - 1) \in entries[i].positions].word]

\* No word is empty or begins or ends with a blank
CleanWords(entries) ==
    \A i \in DOMAIN entries :
        /\ entries[i].word # <<>>
        /\ Head(entries[i].word) # " "
        /\ entries[i].word[Len(entries[i].word)] # " "

\* C26 as stated: for any index covering 0..n-1 exactly once the result is
\* the n words in position order joined by single blanks; a null or empty
\* index gives the empty string.
AbstractInversion ==
    ra.pc = "done" =>
        /\ (ra.index.isNull \/ ra.index.entries = <<>>) => ra.result = <<>>
        /\ \A n \in 1..(MaxPos + 1) :
               Covers(ra.index.entries, n) =>
                   ra.result = Join(TextOf(ra.index.entries, n))

\* C26 amended: the same for indexes whose words are neither empty nor begin
\* or end with a blank; for any covering index the result is the joined
\* words with leading and trailing blanks trimmed.
AbstractInversionOfCleanWords ==
    ra.pc = "done" =>
        /\ (ra.index.isNull \/ ra.index.entries = <<>>) => ra.result = <<>>
        /\ \A n \in 1..(MaxPos + 1) :
               Covers(ra.index.entries, n) =>
                   /\ CleanWords(ra.index.entries) =>
                          ra.result = Join(TextOf(ra.index.entries, n))
                   /\ ra.result = Trim(Join(TextOf(ra.index.entries, n)))

\* C26 witness: an index of clean words, one of them at two positions, has
\* been reconstructed
AbstractInversionWitness ==
    /\ ra.pc = "done"
    /\ ~ra.index.isNull
    /\ CleanWords(ra.index.entries)
    /\ Covers(ra.index.entries, MaxPos + 1)
    /\ \E i \in DOMAIN ra.index.entries : Cardinality(ra.index.entries[i].positions) = 2
    /\ Len(ra.result) = 2 * MaxPos + 1

\* The i-th invocation of fn succeeded
Succeeded(i) == ResilientFetch(rt.log[i]).ok

\* shouldRetry accepts the failure of the i-th invocation
Accepted(i) == isRetryable(ResilientFetch(rt.log[i]).err)

\* C27: withRetry is bounded: fn is invoked at most maxAttempts times; no
\* invocation follows a success or a failure shouldRetry rejects; the call
\* returns on the first success and otherwise throws the last failure, at
\* the attempt cap or on a rejected failure; a delay before attempt k+1 is
\* at most min(baseDelayMs * 2^(k-1), maxDelayMs); and a started call
\* settles.
BoundedRetry ==
    /\ [](/\ Len(rt.log) <= rt.maxAttempts
          /\ \A i \in 1..(Len(rt.log) - 1) : ~Succeeded(i) /\ Accepted(i)
          /\ rt.pc = "returned" => Succeeded(Len(rt.log))
          /\ rt.pc = "thrown" =>
                 /\ ~Succeeded(Len(rt.log))
                 /\ rt.lastError = ResilientFetch(rt.log[Len(rt.log)]).err
                 /\ Len(rt.log) = rt.maxAttempts \/ ~Accepted(Len(rt.log))
          /\ rt.pc = "backoff" =>
                 rt.delay <= Min(rt.baseDelayMs * Pow2(rt.attempt - 1), rt.maxDelayMs))
    /\ (rt.pc = "attempt" ~> rt.pc \in {"returned", "thrown"})

\* C27 witness: a call threw at its cap of three attempts, after a delay
\* that the cap maxDelayMs bounded
BoundedRetryWitness ==
    /\ rt.pc = "thrown"
    /\ rt.maxAttempts = 3
    /\ Len(rt.log) = 3
    /\ rt.baseDelayMs * Pow2(1) > rt.maxDelayMs

\* C28: connection validity: whatever the analysis names, every connection
\* row the request persists for its query references two distinct source
\* rows the request inserted before for that query, and has a strength
\* within [0, 1].
ConnectionValidity ==
    \A c \in connections :
        c.query_id = pl.queryId =>
            /\ c.source_a_id # c.source_b_id
            /\ \A id \in {c.source_a_id, c.source_b_id} :
                   /\ \E k \in DOMAIN pl.inserted : pl.inserted[k] = id
                   /\ \A s \in sources : s.id = id => s.query_id = c.query_id
            /\ c.strength >= 0 /\ c.strength <= 10

\* C28 witness: a row with a clamped strength was persisted by a request
\* that stored two sources
ConnectionValidityWitness ==
    /\ pl.response = "ok"
    /\ Len(pl.inserted) = 2
    /\ \E c \in connections : c.query_id = pl.queryId /\ c.strength \in {0, 10}

\* The number of places an event is in: the buffer, the batches in flight
\* and the rows of the events table
InBuffer(e) == Cardinality({k \in DOMAIN an.buffer : an.buffer[k] = e})

InFlight(e) ==
    Cardinality({b \in an.inflight : \E k \in DOMAIN b : b[k] = e})

\* C30: the analytics buffer loses nothing: every event track() accepted is
\* at all times in exactly one place, the buffer, one insert batch in flight
\* or one row of the events table; and a failed flush puts its whole batch
\* back at the front of the buffer.
BufferLosesNothing ==
    /\ [](\A e \in EventIds :
            /\ e <= an.accepted => InBuffer(e) + InFlight(e) + an.events[e] = 1
            /\ e > an.accepted => InBuffer(e) + InFlight(e) + an.events[e] = 0)
    /\ [][\A batch \in an.inflight \ an'.inflight :
             an'.events = an.events => an'.buffer = batch \o an.buffer]_vars

\* C30 witness: a batch that failed is back in the buffer in front of an
\* event tracked since, beside an event in flight and an event inserted
BufferLosesNothingWitness ==
    /\ an.failures > 0
    /\ Len(an.buffer) >= 2
    /\ an.buffer[1] < an.buffer[Len(an.buffer)]
    /\ an.inflight # {}
    /\ \E e \in EventIds : an.events[e] = 1

=============================================================================
